---- MODULE Spec2Model ----
(***************************************************************************)
(* State-machine model of the mwc-node peer-to-peer layer.                 *)
(*                                                                         *)
(*   Part I   one peer connection (p2p/src/conn.rs): the bounded outbound  *)
(*            queue, ConnHandle::send, StopHandle::stop, the reader thread *)
(*            and the writer thread spawned by poll().                     *)
(*   Part II  the peer registry (p2p/src/peers.rs): the live map, the peer *)
(*            store, the excluded set and Peers::ban_peer and friends.     *)
(***************************************************************************)
EXTENDS Integers, Sequences, FiniteSets, TLC

(***************************************************************************)
(* Program constants and model bounds                                      *)
(***************************************************************************)
\* conn.rs:41  pub const SEND_CHANNEL_CAP: usize = 32 + 8;
SEND_CHANNEL_CAP == 40

\* Number of send calls of the producer in the overflow specification (two
\* more than the capacity, so that sends meet a full queue, also after the
\* writer has taken a message).
MaxBurst == 42
\* Number of send calls of the external producer in the worker
\* specification.
MaxSends == 2
\* Number of responses the reader thread enqueues.
MaxResponses == 1
\* Number of transient (retryable) write failures the socket produces.
MaxWriteErrs == 1

\* The threads that send through the Peer's ConnHandle (sync runner,
\* broadcast, ...): try_send serialises them, so they are one producer here.
ExtProducers == {"peer"}
\* The reader thread holds a clone of the ConnHandle (conn.rs:198, 323).
Producers == ExtProducers \cup {"reader"}

VARIABLES
    \* ---- Part I: one connection ----
    queue,       \* crossbeam bounded channel contents (conn.rs:188)
    sendCount,   \* per producer: number of ConnHandle::send calls issued
    sendArm,     \* match arm of the last try_send: None/Ok/Full/Disconnected
    sendRet,     \* return value of the last ConnHandle::send: None/Ok/Err
    accepted,    \* history: messages try_send put into the channel, in order
    stopped,     \* StopHandle.stopped, the shared AtomicBool (conn.rs:190)
    peerHandle,  \* the Peer's ConnHandle (Sender) has not been dropped
    streamShut,  \* the TcpStream has been shut down (Shutdown::Both)
    rpc,         \* reader thread position: read / consume / exited
    attachment,  \* reader's `attachment: Option<File>` is Some
    rmsg,        \* the message the reader hands to handler.consume
    rexit,       \* why the reader loop was left: none / stop / error (a
                 \* try_break! break) / unexpected_chunk / disconnect
    wpc,         \* writer thread position: recv / drain / write / exited
    data,        \* writer's current batch `data`
    retry_send,  \* writer's `retry_send`: Err(()) or Ok(batch)
    wire,        \* history: messages written to the socket, in order
    werrs,       \* number of transient write failures so far
    wexit,       \* why the writer loop was left
    \* ---- Part II: the registry ----
    peers,       \* Peers.peers: the live map PeerAddr -> Peer (peers.rs:54)
    store,       \* Peers.store: the persistent state of each address
    excluded,    \* Peers.excluded_peers (peers.rs:58)
    mapLock,     \* the map's RwLock is held by Peers::stop (peers.rs:593)
    ban,         \* the ban_peer call in progress, or the last one's outcome
    \* ---- Part III: further registry calls ----
    unban,       \* the last unban_peer call: its argument and return value
    add,         \* the add_connected call in progress, step by step
    known,       \* the last is_known call: its argument and return value
    fan,         \* the broadcast / check_all calls in progress, one per caller
    prune,       \* the clean_peers call in progress (the monitor thread)
    boost,       \* Peers.boost_peers_capabilities and the clock
    lk,          \* Part VI: the lock operations of the calls in progress
    \* ---- Part VIII: the server and the sync runner ----
    srv,         \* Server: stop state, listener loop, connect / accept calls
    sync,        \* SyncRunner: status, wait_for_min_peers and sync_loop
    recv,        \* a *_received call of the registry's ChainAdapter
    rate,        \* Part I: the connection's Tracker.received_bytes and
                 \* SyncState::is_syncing
    gossip       \* Part IX: the peer_addrs_received call in progress

connVars == <<queue, sendCount, sendArm, sendRet, accepted, stopped,
              peerHandle, streamShut, rpc, attachment, rmsg, rexit,
              wpc, data, retry_send, wire, werrs, wexit>>

\* The state of the calls of Part III.
\* The state of Part VIII, and the rate tracker.
srvVars == <<srv, sync, recv, rate, gossip>>

callVars == <<fan, prune, boost, lk, srvVars>>

opVars == <<unban, add, known, callVars>>

regVars == <<peers, store, excluded, mapLock, ban, opVars>>

vars == <<connVars, regVars>>

(***************************************************************************)
(* Part I.  p2p/src/conn.rs                                                *)
(***************************************************************************)

\* retry_send = Err(())
NoRetry == [some |-> FALSE, data |-> <<>>]
\* Mutant: the failed batch is not kept.
Retry_Lost(batch) == [some |-> FALSE, data |-> <<>>]

\* retry_send = Ok(batch) (conn.rs:369-371)
Retry(batch) == [some |-> TRUE, data |-> batch]

NoMsg == [kind |-> "None", left |-> 0, open |-> FALSE]

\* The Receiver lives in the writer closure: it is dropped when that thread
\* ends (conn.rs:222, 341-394).
RxAlive == wpc # "exited"
\* Senders: the Peer's ConnHandle and the reader's clone (conn.rs:198).
SendersAlive == peerHandle \/ rpc # "exited"

\* Mutant: a channel without a capacity check.
try_send_NoCap(q, m) ==
    IF wpc = "exited" THEN [arm |-> "Disconnected", q |-> q]
    ELSE [arm |-> "Ok", q |-> Append(q, m)]

\* crossbeam Sender::try_send on the bounded channel, as used at conn.rs:128:
\* a disconnected channel is reported before a full one.
try_send(q, m) ==
    IF ~RxAlive THEN [arm |-> "Disconnected", q |-> q]
    ELSE IF Len(q) >= SEND_CHANNEL_CAP THEN [arm |-> "Full", q |-> q]
    ELSE [arm |-> "Ok", q |-> Append(q, m)]

\* Mutant: a full buffer is reported as a failure.
SendResult_FullIsErr(arm) == IF arm = "Ok" THEN "Ok" ELSE "Err"

\* The match of ConnHandle::send (conn.rs:128-137).
SendResult(arm) ==
    CASE arm = "Ok" -> "Ok"
      [] arm = "Disconnected" -> "Err"
      [] arm = "Full" -> "Ok"

\* ConnHandle::send(msg) called by producer p (conn.rs:127-138).
ConnHandle_send(p) ==
    LET m == <<p, sendCount[p] + 1>>
        r == try_send(queue, m)
    IN /\ sendCount' = [sendCount EXCEPT ![p] = @ + 1]
       /\ queue' = r.q
       /\ sendArm' = r.arm
       /\ sendRet' = SendResult(r.arm)
       /\ accepted' = IF r.arm = "Ok" THEN Append(accepted, m) ELSE accepted

\* Mutant: a store error leaves the loop.
try_break_StoreBreaks(res) ==
    CASE res = "Ok" -> "Some"
      [] res \in {"TimedOut", "WouldBlock", "Chain", "Internal",
                  "NoDandelionRelay"} -> "None"
      [] OTHER -> "Break"

\* macro try_break! (conn.rs:52-72): Some(v) / None / break.
try_break(res) ==
    CASE res = "Ok" -> "Some"
      [] res = "TimedOut" -> "None"
      [] res = "WouldBlock" -> "None"
      [] res \in {"Store", "Chain", "Internal", "NoDandelionRelay"} -> "None"
      [] OTHER -> "Break"

\* Error values a Result<_, Error> can carry ("Send" is Error::Send,
\* "Connection" an io error other than TimedOut / WouldBlock).
Errors == {"TimedOut", "WouldBlock", "Store", "Chain", "Internal",
           "NoDandelionRelay", "Connection", "Send"}

(***************************************************************************)
(* Producers                                                               *)
(***************************************************************************)
\* An external thread calls ConnHandle::send through the Peer's handle.
Send(p, budget) ==
    /\ p \in ExtProducers
    /\ peerHandle
    /\ sendCount[p] < budget
    /\ ConnHandle_send(p)
    /\ UNCHANGED <<stopped, peerHandle, streamShut, rpc, attachment, rmsg,
                   rexit, wpc, data, retry_send, wire, werrs, wexit,
                   regVars>>

\* StopHandle::stop (conn.rs:84-86).
Stop ==
    /\ ~stopped
    /\ stopped' = TRUE
    /\ UNCHANGED <<queue, sendCount, sendArm, sendRet, accepted, peerHandle,
                   streamShut, rpc, attachment, rmsg, rexit,
                   wpc, data, retry_send, wire, werrs, wexit, regVars>>

\* The last Arc<Peer> is dropped, and with it the Peer's ConnHandle
\* (serv.rs:313, 356: add_connected failed; peers.rs: removal from the map).
DropPeer ==
    /\ peerHandle
    /\ peerHandle' = FALSE
    /\ UNCHANGED <<queue, sendCount, sendArm, sendRet, accepted, stopped,
                   streamShut, rpc, attachment, rmsg, rexit,
                   wpc, data, retry_send, wire, werrs, wexit, regVars>>

(***************************************************************************)
(* Reader thread (conn.rs:238-337)                                         *)
(***************************************************************************)
\* Mutant: the reader leaves without shutting the stream down.
ReaderBreak_NoShutdown(why) ==
    /\ rpc' = "exited"
    /\ rexit' = why
    /\ streamShut' = streamShut
    /\ rmsg' = [kind |-> "None", left |-> 0, open |-> FALSE]
    /\ attachment' = FALSE

\* Leaving the loop: conn.rs:335-336 shuts the stream down, the closure ends
\* and drops its locals (an open attachment file among them).
ReaderBreak(why) ==
    /\ rpc' = "exited"
    /\ rexit' = why
    /\ streamShut' = TRUE
    /\ rmsg' = NoMsg
    /\ attachment' = FALSE

ReaderFrame == UNCHANGED <<queue, sendCount, sendArm, sendRet, accepted,
                           stopped, peerHandle, wpc, data, retry_send, wire,
                           werrs, wexit, regVars>>

\* What codec.read() can return (conn.rs:257): Ok(message) or Err(error).  On
\* a stream that is shut down a read fails with a connection error.  left is
\* the `left` of an attachment chunk and the `remaining` of a header batch.
ReadResults ==
    IF streamShut THEN {[res |-> "Connection", kind |-> "None", left |-> 0]}
    ELSE {[res |-> "Ok", kind |-> k, left |-> 0] : k \in {"Unknown", "Other"}}
         \cup {[res |-> "Ok", kind |-> "Attachment", left |-> l] : l \in {0, 1}}
         \cup {[res |-> "Ok", kind |-> "Headers", left |-> l] : l \in {0, 1}}
         \cup {[res |-> e, kind |-> "None", left |-> 0] : e \in Errors \ {"Send"}}

\* conn.rs:249-251: the stop check at the top of the reader loop.
ReaderStopCheck ==
    /\ rpc = "read"
    /\ stopped
    /\ ReaderBreak("stop")
    /\ ReaderFrame

\* Mutant: a chunk is handed on although no attachment is open.
ReaderAttachment_NoCheck(next, fileOk, syncOk) ==
    /\ attachment' = (attachment /\ next.left # 0)
    /\ rmsg' = [kind |-> "Attachment", left |-> next.left, open |-> attachment]
    /\ rpc' = "consume"
    /\ UNCHANGED <<rexit, streamShut>>

\* conn.rs:287-310: an attachment chunk.  fileOk: a.write_all succeeded;
\* syncOk: a.sync_all succeeded.
ReaderAttachment(next, fileOk, syncOk) ==
    IF ~attachment
    THEN ReaderBreak("unexpected_chunk")
    ELSE IF ~fileOk
    THEN ReaderBreak("error")
    ELSE IF next.left = 0 /\ ~syncOk
    THEN ReaderBreak("error")
    ELSE /\ attachment' = (next.left # 0)
         /\ rmsg' = [kind |-> "Attachment", left |-> next.left,
                     open |-> attachment]
         /\ rpc' = "consume"
         /\ UNCHANGED <<rexit, streamShut>>

\* conn.rs:257-316: one codec read and the dispatch on the message kind.
ReaderReadStep(next, fileOk, syncOk) ==
    /\ rpc = "read"
    /\ ~stopped
    /\ CASE try_break(next.res) = "Break" ->
              ReaderBreak("error")
         [] try_break(next.res) = "None" ->
              UNCHANGED <<rpc, rexit, streamShut, rmsg, attachment>>
         [] OTHER ->
              CASE next.kind = "Unknown" ->
                     UNCHANGED <<rpc, rexit, streamShut, rmsg, attachment>>
                [] next.kind = "Attachment" ->
                     ReaderAttachment(next, fileOk, syncOk)
                [] OTHER ->
                     /\ rmsg' = [kind |-> "Other", left |-> 0,
                                 open |-> attachment]
                     /\ rpc' = "consume"
                     /\ UNCHANGED <<rexit, streamShut, attachment>>
    /\ UNCHANGED <<queue, sendCount, sendArm, sendRet, accepted, stopped,
                   peerHandle, wpc, data, retry_send, wire, werrs, wexit,
                   peers, store, excluded, mapLock, ban, unban, add, known,
                   fan, prune, boost, lk, srv, sync, recv,
                   gossip>>

\* The largest bytes_read of one codec.read(), and the reads counted.
MaxBytes == 2

MaxReads == 2

\* Tracker.received_bytes and what the reader sees of the node:
\*   syncing  sync_state.is_syncing()
\*   bytes    the bytes counted; ticks: the entries that are not quiet, which
\*            count_per_min counts
\*   reads    history: the reads counted so far; next, n: the result and
\*            bytes_read of the last of them
NoRate ==
    [syncing |-> TRUE, bytes |-> 0, ticks |-> 0, reads |-> 0,
     next |-> [res |-> "None", kind |-> "None", left |-> 0], n |-> 0]

\* Tracker::inc_received and inc_quiet_received (conn.rs:158-172):
\* RateCounter::inc adds an entry of `size` bytes, inc_quiet a quiet one.
inc_received(r, size) == [r EXCEPT !.bytes = @ + size, !.ticks = @ + 1]

inc_quiet_received(r, size) == [r EXCEPT !.bytes = @ + size]

\* Mutant: every read counts as a message.
count_received_Loud(r, next, bytes_read) == inc_received(r, bytes_read)

\* conn.rs:262-276: the match on `next` that picks the counter.
count_received(r, next, bytes_read) ==
    IF next.res = "Ok" /\ next.kind = "Attachment"
    THEN inc_quiet_received(r, bytes_read)
    ELSE IF next.res = "Ok" /\ next.kind = "Headers"
    THEN IF next.left = 0
         THEN inc_received(r, bytes_read)
         ELSE inc_quiet_received(r, bytes_read)
    ELSE inc_received(r, bytes_read)

\* conn.rs:259-277: the tracker is left alone while the node is syncing.
TrackRead(next) ==
    IF rate.syncing
    THEN UNCHANGED rate
    ELSE /\ rate.reads < MaxReads
         /\ \E bytes_read \in 0..MaxBytes :
               rate' = [count_received(rate, next, bytes_read) EXCEPT
                          !.reads = @ + 1, !.next = next, !.n = bytes_read]

\* conn.rs:257-316: one iteration that reads `next`.  The file outcomes are
\* inputs of the attachment arm only.
ReaderReadOf(next) ==
    /\ IF next.kind = "Attachment"
       THEN \E fileOk \in BOOLEAN, syncOk \in BOOLEAN :
                ReaderReadStep(next, fileOk, syncOk)
       ELSE ReaderReadStep(next, TRUE, TRUE)
    /\ TrackRead(next)

ReaderRead == \E next \in ReadResults : ReaderReadOf(next)

\* The chain's sync state changes (SyncState::is_syncing).
SyncChange(b) ==
    /\ rate.syncing # b
    /\ rate' = [rate EXCEPT !.syncing = b]
    /\ UNCHANGED <<connVars, peers, store, excluded, mapLock, ban, unban,
                   add, known, fan, prune, boost, lk, srv, sync, recv,
                   gossip>>

\* What handler.consume(message) can return (conn.rs:319).
ConsumeResults ==
    {[res |-> "Ok", verdict |-> v] :
        v \in {"None", "Response", "Attachment", "Disconnect"}}
    \cup {[res |-> e, verdict |-> "None"] : e \in Errors}

\* conn.rs:319-332: handler.consume and the match on its verdict.
ReaderConsumeStep(c) ==
    /\ rpc = "consume"
    /\ LET consumed == IF try_break(c.res) = "Some" THEN c.verdict ELSE "None"
       IN CASE try_break(c.res) = "Break" ->
                 /\ ReaderBreak("error")
                 /\ UNCHANGED <<queue, sendCount, sendArm, sendRet, accepted>>
            [] consumed = "Response" ->
                 /\ sendCount["reader"] < MaxResponses
                 /\ ConnHandle_send("reader")
                 /\ IF try_break(sendRet') = "Break"
                    THEN ReaderBreak("error")
                    ELSE /\ rpc' = "read"
                         /\ rmsg' = NoMsg
                         /\ UNCHANGED <<rexit, streamShut, attachment>>
            [] consumed = "Attachment" ->
                 /\ attachment' = TRUE
                 /\ rpc' = "read"
                 /\ rmsg' = NoMsg
                 /\ UNCHANGED <<rexit, streamShut, queue, sendCount, sendArm,
                                sendRet, accepted>>
            [] consumed = "Disconnect" ->
                 /\ ReaderBreak("disconnect")
                 /\ UNCHANGED <<queue, sendCount, sendArm, sendRet, accepted>>
            [] OTHER ->
                 /\ rpc' = "read"
                 /\ rmsg' = NoMsg
                 /\ UNCHANGED <<rexit, streamShut, attachment, queue, sendCount,
                                sendArm, sendRet, accepted>>
    /\ UNCHANGED <<stopped, peerHandle, wpc, data, retry_send, wire, werrs,
                   wexit, regVars>>

ReaderConsume == \E c \in ConsumeResults : ReaderConsumeStep(c)

Reader == ReaderStopCheck \/ ReaderRead \/ ReaderConsume

(***************************************************************************)
(* Writer thread (conn.rs:339-394)                                         *)
(***************************************************************************)
\* Leaving the loop: conn.rs:386-393 shuts the stream down, the closure ends
\* and drops the Receiver.
WriterBreak(why) ==
    /\ wpc' = "exited"
    /\ wexit' = why
    /\ streamShut' = TRUE
    /\ data' = <<>>

\* Mutant: the writer never looks at the stop flag.
WriterStopCheck_Never ==
    /\ wpc' = "recv"
    /\ data' = <<>>
    /\ UNCHANGED <<wexit, streamShut>>

\* conn.rs:380-383: the stop check that ends every writer iteration.
WriterStopCheck ==
    IF stopped
    THEN WriterBreak("stop")
    ELSE /\ wpc' = "recv"
         /\ data' = <<>>
         /\ UNCHANGED <<wexit, streamShut>>

WriterFrame == UNCHANGED <<sendCount, sendArm, sendRet, accepted, stopped,
                           peerHandle, rpc, attachment, rmsg, rexit,
                           regVars>>

\* conn.rs:345-349: retry_send.or_else(recv_timeout).  A pending retry batch
\* is taken without touching the channel; recv_timeout yields the head of the
\* channel, or Disconnected when it is empty and every Sender is gone, or
\* Timeout when it is empty (conn.rs:377, then the stop check).
WriterRecv ==
    /\ wpc = "recv"
    /\ IF retry_send.some
       THEN /\ data' = retry_send.data
            /\ retry_send' = NoRetry
            /\ wpc' = "write"
            /\ UNCHANGED <<queue, wexit, streamShut>>
       ELSE IF queue # <<>>
       THEN /\ data' = <<Head(queue)>>
            /\ queue' = Tail(queue)
            /\ wpc' = "drain"
            /\ UNCHANGED <<retry_send, wexit, streamShut>>
       ELSE IF ~SendersAlive
       THEN /\ WriterBreak("disconnected")
            /\ UNCHANGED <<queue, retry_send>>
       ELSE /\ WriterStopCheck
            /\ UNCHANGED <<queue, retry_send>>
    /\ UNCHANGED <<wire, werrs>>
    /\ WriterFrame

\* Mutant: the batch is built in reverse.
PushBatch_Front(batch, m) == <<m>> \o batch

\* conn.rs:354: data.push(msg).
PushBatch(batch, m) == Append(batch, m)

\* conn.rs:351-361: one try_recv of the drain loop.
WriterDrain ==
    /\ wpc = "drain"
    /\ IF queue # <<>>
       THEN /\ data' = PushBatch(data, Head(queue))
            /\ queue' = Tail(queue)
            /\ UNCHANGED <<wpc, wexit, streamShut>>
       ELSE IF ~SendersAlive
       THEN /\ WriterBreak("disconnected")
            /\ UNCHANGED queue
       ELSE /\ wpc' = "write"
            /\ UNCHANGED <<queue, data, wexit, streamShut>>
    /\ UNCHANGED <<retry_send, wire, werrs>>
    /\ WriterFrame

\* What write_message can return (conn.rs:368).  A write on a stream that is
\* shut down fails with a connection error.
WriteResults ==
    IF streamShut THEN {"Connection"}
    ELSE {"Ok", "Connection"}
         \cup (IF werrs < MaxWriteErrs THEN {"TimedOut", "WouldBlock"} ELSE {})

\* conn.rs:364-383: write the batch, keep it for a retry when try_break!
\* yields None, then the stop check.
WriterWriteStep(res) ==
    /\ wpc = "write"
    /\ CASE try_break(res) = "Break" ->
              /\ WriterBreak("write_error")
              /\ UNCHANGED <<wire, retry_send, werrs>>
         [] try_break(res) = "None" ->
              /\ retry_send' = Retry(data)
              /\ werrs' = werrs + 1
              /\ WriterStopCheck
              /\ UNCHANGED wire
         [] OTHER ->
              /\ wire' = wire \o data
              /\ retry_send' = NoRetry
              /\ WriterStopCheck
              /\ UNCHANGED werrs
    /\ UNCHANGED queue
    /\ WriterFrame

WriterWrite == \E res \in WriteResults : WriterWriteStep(res)

Writer == WriterRecv \/ WriterDrain \/ WriterWrite

(***************************************************************************)
(* Part II.  p2p/src/peers.rs                                              *)
(***************************************************************************)
Addrs == {"a1", "a2"}

\* State of a PeerData record in the store (store.rs State), "None" when the
\* store holds no record of the address.
StoreStates == {"None", "Healthy", "Banned", "Defunct"}

\* A Peer as the registry sees it:
\*   banned   the Peer's banned flag (set_banned)
\*   stopped  the stop flag of its connection (Peer::stop -> StopHandle::stop)
\*   alive    its writer thread runs, so that a send is not refused
\*   gone     the Peer reports !is_connected()
NewPeer == [banned |-> FALSE, stopped |-> FALSE, alive |-> TRUE, gone |-> FALSE]

Insert(map, a, p) == [b \in DOMAIN map \cup {a} |-> IF b = a THEN p ELSE map[b]]

Remove(map, a) == [b \in DOMAIN map \ {a} |-> map[b]]

EmptyMap == [b \in {} |-> NewPeer]

\* The map's RwLock is held for writing: by Peers::stop (peers.rs:593), or
\* by the scope of add_connected (peers.rs:133-150).
MapLocked == mapLock \/ add.lock

\* Peer::is_connected, the live connection predicate of PeersIter::connected
\* (peers.rs:995-999).
is_connected(p) == ~p.gone

\* Peers::iter (peers.rs:188-207): a snapshot of the map without the excluded
\* peers; empty when the read lock is not acquired within LOCK_TIMEOUT.
iter == IF MapLocked THEN {} ELSE {a \in DOMAIN peers : a \notin excluded}

\* Mutant: the address is looked up in the map itself.
get_connected_peer_Raw(a) == {b \in DOMAIN peers : b = a}

\* Peers::get_connected_peer (peers.rs:210-212): iter().connected().by_addr.
get_connected_peer(a) == {b \in iter : is_connected(peers[b]) /\ b = a}

\* Peers::is_banned (peers.rs:214-219).
is_banned(a) == store[a] = "Banned"

\* Peer::send_ban_reason -> ConnHandle::send (conn.rs:127-138): refused when
\* the peer's channel is disconnected.
send_ban_reason(p) == IF p.alive THEN "Ok" ELSE "Err"

\* The ban_peer call: its position (idle / remove / done), its argument, its
\* return value, and whether the address was in the map (inMap) and yielded by
\* iter().connected() (conn) when the call started.
NoBan == [pc |-> "idle", addr |-> "a1", ret |-> "None", inMap |-> FALSE,
          conn |-> FALSE]

BanDone(a, r, m, c) ==
    [pc |-> "done", addr |-> a, ret |-> r, inMap |-> m, conn |-> c]

\* Peers::ban_peer up to the map lock (peers.rs:221-244): update_state, then
\* get_connected_peer, then send_ban_reason, set_banned and stop.  storeOk:
\* store.update_state succeeded.
BanPeerBegin(a, storeOk) ==
    /\ ban.pc = "idle"
    /\ LET inMap == a \in DOMAIN peers
           conn == get_connected_peer(a) # {}
       IN IF ~storeOk
          THEN /\ ban' = BanDone(a, "Store", inMap, conn)
               /\ UNCHANGED <<peers, store>>
          ELSE /\ store' = [store EXCEPT ![a] = "Banned"]
               /\ IF get_connected_peer(a) = {}
                  THEN /\ ban' = BanDone(a, "PeerNotFound", inMap, conn)
                       /\ UNCHANGED peers
                  ELSE IF send_ban_reason(peers[a]) = "Err"
                  THEN /\ ban' = BanDone(a, "Send", inMap, conn)
                       /\ UNCHANGED peers
                  ELSE /\ peers' = [peers EXCEPT ![a].banned = TRUE,
                                                 ![a].stopped = TRUE]
                       /\ ban' = [pc |-> "remove", addr |-> a, ret |-> "None",
                                  inMap |-> inMap, conn |-> conn]
    /\ UNCHANGED <<excluded, mapLock, connVars, opVars>>

\* Peers::ban_peer from the map lock on (peers.rs:245-250): try_write_for and
\* the removal.
BanPeerRemove ==
    /\ ban.pc = "remove"
    /\ IF MapLocked
       THEN /\ ban' = BanDone(ban.addr, "PeerException", ban.inMap, ban.conn)
            /\ UNCHANGED peers
       ELSE /\ peers' = Remove(peers, ban.addr)
            /\ ban' = BanDone(ban.addr, "Ok", ban.inMap, ban.conn)
    /\ UNCHANGED <<store, excluded, mapLock, connVars, opVars>>

\* The caller of ban_peer takes the result.
BanPeerReturn ==
    /\ ban.pc = "done"
    /\ ban' = NoBan
    /\ UNCHANGED <<peers, store, excluded, mapLock, connVars, opVars>>

\* Peers::add_banned (peers.rs:159-171): save a Banned PeerData; the map is
\* not touched.  saveOk: save_peer succeeded.
AddBanned(a, saveOk) ==
    /\ store' = IF saveOk THEN [store EXCEPT ![a] = "Banned"] ELSE store
    /\ UNCHANGED <<peers, excluded, mapLock, ban, connVars, opVars>>

\* Peers::add_connected (peers.rs:131-155): insert under the write lock, then
\* save a Healthy PeerData; a failed save is only logged.  saveOk: save_peer
\* succeeded.
AddConnected(a, saveOk) ==
    /\ IF MapLocked
       THEN UNCHANGED <<peers, store>>
       ELSE /\ peers' = Insert(peers, a, NewPeer)
            /\ store' = IF saveOk THEN [store EXCEPT ![a] = "Healthy"]
                        ELSE store
    /\ UNCHANGED <<excluded, mapLock, ban, connVars, opVars>>

\* Peers::set_excluded_peers (peers.rs:85-91).
SetExcluded(S) ==
    /\ excluded' = S
    /\ UNCHANGED <<peers, store, mapLock, ban, connVars, opVars>>

\* The writer thread of a registered peer ends (conn.rs:373-376, 368, 381):
\* from then on a send through its ConnHandle is refused.
PeerWriterExit(a) ==
    /\ a \in DOMAIN peers
    /\ peers[a].alive
    /\ peers' = [peers EXCEPT ![a].alive = FALSE]
    /\ UNCHANGED <<store, excluded, mapLock, ban, connVars, opVars>>

\* The Peer of a connection that was stopped, or whose writer has ended,
\* starts to report !is_connected().
PeerDisconnected(a) ==
    /\ a \in DOMAIN peers
    /\ ~peers[a].gone
    /\ peers[a].stopped \/ ~peers[a].alive
    /\ peers' = [peers EXCEPT ![a].gone = TRUE]
    /\ UNCHANGED <<store, excluded, mapLock, ban, connVars, opVars>>

\* Peers::stop (peers.rs:592-596): take the write lock and stop every peer.
PeersStopBegin ==
    /\ ~MapLocked
    /\ mapLock' = TRUE
    /\ peers' = [b \in DOMAIN peers |-> [peers[b] EXCEPT !.stopped = TRUE]]
    /\ UNCHANGED <<store, excluded, ban, connVars, opVars>>

\* Peers::stop (peers.rs:597-600): drain the map, join every peer's threads
\* and release the lock.
PeersStopEnd ==
    /\ mapLock
    /\ mapLock' = FALSE
    /\ peers' = EmptyMap
    /\ UNCHANGED <<store, excluded, ban, connVars, opVars>>

(***************************************************************************)
(* Part III.  p2p/src/peers.rs, further calls                              *)
(***************************************************************************)
NoUnban == [addr |-> "a1", ret |-> "None"]

\* Peers::get_peer (peers.rs:402-404): the record of the address, or the
\* store's error when there is none or when the read fails (readOk).
get_peer(a, readOk) == IF readOk /\ store[a] # "None" THEN "Ok" ELSE "Store"

\* Mutant: an address without a record is reported as not banned.
unban_peer_NoLookup(a, readOk, updateOk) ==
    IF ~is_banned(a) THEN "PeerNotBanned"
    ELSE IF ~updateOk THEN "Store"
    ELSE "Ok"

\* Peers::unban_peer (peers.rs:257-266), its return value: get_peer(..)?,
\* then is_banned, then update_state(Healthy) or PeerNotBanned.  updateOk:
\* store.update_state succeeded.
unban_peer(a, readOk, updateOk) ==
    IF get_peer(a, readOk) # "Ok" THEN "Store"
    ELSE IF ~is_banned(a) THEN "PeerNotBanned"
    ELSE IF ~updateOk THEN "Store"
    ELSE "Ok"

\* Peers::unban_peer (peers.rs:257-266) as a step: the store is updated
\* exactly when the call returns Ok.
UnbanPeer(a, readOk, updateOk) ==
    /\ unban' = [addr |-> a, ret |-> unban_peer(a, readOk, updateOk)]
    /\ store' = IF unban'.ret = "Ok" THEN [store EXCEPT ![a] = "Healthy"]
                ELSE store
    /\ UNCHANGED <<peers, excluded, mapLock, ban, connVars, add, known,
                 callVars>>

\* The add_connected call: its position (idle / locked / save / done), its
\* argument, its return value, and whether its write guard is alive.
NoAdd == [pc |-> "idle", addr |-> "a1", ret |-> "None", lock |-> FALSE]

\* Peers::add_connected (peers.rs:135-138): try_write_for(LOCK_TIMEOUT); on a
\* timeout the `?` returns Error::Timeout before anything else is done.
AddConnectedLock(a) ==
    /\ add.pc = "idle"
    /\ add' = IF MapLocked
              THEN [pc |-> "done", addr |-> a, ret |-> "Timeout", lock |-> FALSE]
              ELSE [pc |-> "locked", addr |-> a, ret |-> "None", lock |-> TRUE]
    /\ UNCHANGED <<peers, store, excluded, mapLock, ban, connVars, unban, known,
                 callVars>>

\* Mutant: the write guard outlives the scope of the insertion.
AddConnectedInsert_KeepLock ==
    /\ add.pc = "locked"
    /\ peers' = Insert(peers, add.addr, NewPeer)
    /\ add' = [add EXCEPT !.pc = "save"]
    /\ UNCHANGED <<store, excluded, mapLock, ban, connVars, unban, known,
                 callVars>>

\* Peers::add_connected (peers.rs:139-150): the insertion; the scope ends and
\* drops the write guard.
AddConnectedInsert ==
    /\ add.pc = "locked"
    /\ peers' = Insert(peers, add.addr, NewPeer)
    /\ add' = [add EXCEPT !.pc = "save", !.lock = FALSE]
    /\ UNCHANGED <<store, excluded, mapLock, ban, connVars, unban, known,
                 callVars>>

\* Peers::add_connected (peers.rs:151-154): save_peer(Healthy); a failed save
\* is only logged and the call returns Ok(()).  The guard, if still alive, is
\* dropped when the function returns.
AddConnectedSave(saveOk) ==
    /\ add.pc = "save"
    /\ store' = IF saveOk THEN [store EXCEPT ![add.addr] = "Healthy"] ELSE store
    /\ add' = [add EXCEPT !.pc = "done", !.ret = "Ok", !.lock = FALSE]
    /\ UNCHANGED <<peers, excluded, mapLock, ban, connVars, unban, known,
                 callVars>>

\* The caller of add_connected takes the result.
AddConnectedReturn ==
    /\ add.pc = "done"
    /\ add' = NoAdd
    /\ UNCHANGED <<peers, store, excluded, mapLock, ban, connVars, unban, known,
                 callVars>>

NoKnown == [addr |-> "a1", ret |-> "None"]

\* Mutant: the lookup does not wait for the lock.
is_known_Unlocked(a) == IF a \in DOMAIN peers THEN "True" ELSE "False"

\* Peers::is_known (peers.rs:177-183), its return value: Error::Internal when
\* the read lock is not acquired within LOCK_TIMEOUT, else contains_key.
is_known(a) ==
    IF MapLocked THEN "Internal"
    ELSE IF a \in DOMAIN peers THEN "True" ELSE "False"

\* Peers::is_known (peers.rs:177-183) as a step.
IsKnown(a) ==
    /\ known' = [addr |-> a, ret |-> is_known(a)]
    /\ UNCHANGED <<peers, store, excluded, mapLock, ban, connVars, unban, add,
                 callVars>>

(***************************************************************************)
(* Part IV.  p2p/src/peers.rs, broadcast and check_all                     *)
(***************************************************************************)
\* The threads that broadcast or ping concurrently.
FanIds == {1, 2}

\* One thread broadcasts (the adapter's, peers.rs:301-349) and one pings (the
\* monitor's, peers.rs:351-366).
FanOp(i) == IF i = 1 THEN "broadcast" ELSE "check_all"

\* What the closure `inner` (or send_ping) returns for one peer.
SendOutcomes == {"OkTrue", "OkFalse", "Err"}

\* A broadcast / check_all call:
\*   pc       idle / loop (in the for loop) / lock (in the Err arm, before
\*            try_write_for) / done
\*   conn0    the peers of the Vec that iter() collected which were
\*            connected when it was collected
\*   alive    the peers still ahead in the Vec whose writer ran when it was
\*            collected
\*   todo     the part of the Vec the loop has not reached yet
\*   cur      the peer of the current Err arm
\*   count    the local `count` of broadcast
\*   got      history: the peers the block or ping was sent to, in order
\*   oks      history: the number of sends that returned Ok
\*   broke    the loop was left by `break` (try_write_for timed out)
NoFan ==
    [pc |-> "idle", conn0 |-> {}, alive |-> {}, todo |-> {}, cur |-> "a1",
     count |-> 0, got |-> <<>>, oks |-> 0, broke |-> FALSE]

\* Peers::broadcast / check_all, `self.iter().connected()` (peers.rs:274,
\* 352): iter() collects the map's peers, without the excluded ones, into a
\* Vec under the read lock; connected() only wraps it in a lazy filter.
FanBegin(i) ==
    /\ fan[i].pc = "idle"
    /\ fan' = [fan EXCEPT ![i] =
                 [NoFan EXCEPT !.pc = "loop",
                               !.conn0 = {a \in iter : is_connected(peers[a])},
                               !.alive = {a \in iter : peers[a].alive},
                               !.todo = iter]]
    /\ UNCHANGED <<peers, store, excluded, mapLock, ban, connVars,
                   unban, add, known, prune, boost, lk, srvVars>>

\* What p.is_connected() can answer when the loop reaches p: the Vec holds
\* the Arc<Peer> itself, whose connection may have ended since the snapshot
\* but cannot have come back.
ConnectedNow(f, a) == IF a \in f.conn0 THEN BOOLEAN ELSE {FALSE}

\* What the send can return for p: Err at any time (the connection may have
\* broken), and nothing else once the writer had ended (conn.rs:127-138).
SendNow(f, a) == IF a \in f.alive THEN SendOutcomes ELSE {"Err"}

\* Mutant: the loop does not advance past the peer it has served.
FanVisit_Again(i, a, conn, res) ==
    /\ fan[i].pc = "loop"
    /\ a \in fan[i].todo
    /\ conn \in ConnectedNow(fan[i], a)
    /\ res \in SendNow(fan[i], a)
    /\ conn /\ res = "OkTrue"
    /\ fan' = [fan EXCEPT ![i].count = @ + 1, ![i].got = Append(@, a),
                          ![i].oks = @ + 1]
    /\ UNCHANGED <<peers, store, excluded, mapLock, ban, connVars,
                   unban, add, known, prune, boost, lk, srvVars>>

\* One turn of the for loop (peers.rs:274-278, 352-353): the filter of
\* connected() is evaluated now; a peer that passes it is sent the message.
\* conn: what is_connected answers; res: what the send returns.
FanVisit(i, a, conn, res) ==
    /\ fan[i].pc = "loop"
    /\ a \in fan[i].todo
    /\ conn \in ConnectedNow(fan[i], a)
    /\ res \in SendNow(fan[i], a)
    /\ fan' = [fan EXCEPT ![i] =
         LET f == [fan[i] EXCEPT !.todo = @ \ {a}, !.alive = @ \ {a}]
         IN IF ~conn THEN f
            ELSE CASE res = "OkTrue" ->
                        [f EXCEPT !.count = IF FanOp(i) = "broadcast"
                                            THEN @ + 1 ELSE @,
                                  !.got = Append(@, a),
                                  !.oks = @ + 1]
                   [] res = "OkFalse" -> [f EXCEPT !.oks = @ + 1]
                   [] OTHER -> [f EXCEPT !.cur = a, !.pc = "lock"]]
    /\ UNCHANGED <<peers, store, excluded, mapLock, ban, connVars,
                   unban, add, known, prune, boost, lk, srvVars>>

\* Mutant: the failed peer is stopped but left in the map.
FanRemove_Keep(i) ==
    /\ fan[i].pc = "lock"
    /\ IF MapLocked
       THEN /\ fan' = [fan EXCEPT ![i].pc = "done", ![i].broke = TRUE]
            /\ UNCHANGED peers
       ELSE /\ peers' = [b \in DOMAIN peers |->
                           IF b = fan[i].cur
                           THEN [peers[b] EXCEPT !.stopped = TRUE]
                           ELSE peers[b]]
            /\ fan' = [fan EXCEPT ![i].pc = "loop"]
    /\ UNCHANGED <<store, excluded, mapLock, ban, connVars,
                   unban, add, known, prune, boost, lk, srvVars>>

\* The Err arm (peers.rs:278-292, 353-363): try_write_for(LOCK_TIMEOUT); on
\* a timeout `break`, which ends the call; otherwise p.stop() and the removal
\* of p's address from the map, under the guard, and on to the next peer.
FanRemove(i) ==
    /\ fan[i].pc = "lock"
    /\ IF MapLocked
       THEN /\ fan' = [fan EXCEPT ![i].pc = "done", ![i].broke = TRUE]
            /\ UNCHANGED peers
       ELSE /\ peers' = Remove(peers, fan[i].cur)
            /\ fan' = [fan EXCEPT ![i].pc = "loop"]
    /\ UNCHANGED <<store, excluded, mapLock, ban, connVars,
                   unban, add, known, prune, boost, lk, srvVars>>

\* The Vec is exhausted (peers.rs:295-296, 365): the call returns `count`.
FanEnd(i) ==
    /\ fan[i].pc = "loop"
    /\ fan[i].todo = {}
    /\ fan' = [fan EXCEPT ![i].pc = "done"]
    /\ UNCHANGED <<peers, store, excluded, mapLock, ban, connVars,
                   unban, add, known, prune, boost, lk, srvVars>>

\* The caller takes the result.
FanReturn(i) ==
    /\ fan[i].pc = "done"
    /\ fan' = [fan EXCEPT ![i] = NoFan]
    /\ UNCHANGED <<peers, store, excluded, mapLock, ban, connVars,
                   unban, add, known, prune, boost, lk, srvVars>>

(***************************************************************************)
(* Part V.  p2p/src/peers.rs, clean_peers                                  *)
(***************************************************************************)
Min(x, y) == IF x <= y THEN x ELSE y

\* usize::saturating_sub.
SatSub(x, y) == IF x >= y THEN x - y ELSE 0

KSubsets(S, k) == {T \in SUBSET S : Cardinality(T) = k}

\* The largest max_inbound_count / max_outbound_count the callers pass.
MaxCount == 1

\* The excess outbound peers one call sheds at most (peers.rs:505-508).
MaxShed == 2

\* The number of consecutive cycles after which a lagging outbound peer is
\* dropped (peers.rs:532).
MaxFailures == 3

\* What a call reads from a Peer of the snapshot and its PeerInfo:
\*   out  the connection is outbound
\*   cap  its capabilities contain boost_capability
\*   lag  its height is below my_height - 2 and its total difficulty below ours
\*   bad  "abusive": is_abusive(); "stuck": is_stuck() with a difficulty
\*        below ours; "no": neither
PeerObs ==
    {o \in [out : BOOLEAN, cap : BOOLEAN, lag : BOOLEAN,
            bad : {"no", "abusive", "stuck"}] :
       (o.cap => o.out) /\ (o.lag => o.out)}

Observations == [Addrs -> PeerObs]

\* The arguments: max_inbound_count, max_outbound_count, whether
\* boost_capability is not UNKNOWN, and config.peers_preferred.
CleanArgs ==
    [maxIn : 0..MaxCount, maxOut : 0..MaxCount, boost : BOOLEAN,
     pref : {{}, {"a1"}}]

NoArgs == [maxIn |-> 0, maxOut |-> 0, boost |-> FALSE, pref |-> {}]

NoObs == [a \in Addrs |-> [out |-> FALSE, cap |-> FALSE, lag |-> FALSE,
                           bad |-> "no"]]

\* The monitor thread's clean_peers calls:
\*   failures  Peers.out_peers_failures, 0 for an address without an entry
\*             (a count above MaxFailures is kept as MaxFailures: the code
\*             only asks whether it has reached it)
\*   calls     history: the calls made so far, up to two
\*   args,obs  the arguments and observations of calls made in succession
\*   info      the PeerInfo of each peer: height, total difficulty, and
\*             whether its tx_base_fee is below ours; my: the local height
\*             and total difficulty
\*   shed      history: the peers the last call took as excess outbound
\*   trim      history: the peers its boost step took; slow: the peers its
\*             failure loop listed; over: the peers it took as excess inbound
NoPrune ==
    [failures |-> [a \in Addrs |-> 0], calls |-> 0, args |-> NoArgs,
     obs |-> NoObs,
     info |-> [a \in Addrs |-> [height |-> 0, diff |-> 0, lowfee |-> FALSE]],
     my |-> [height |-> 0, diff |-> 0], shed |-> {}, trim |-> {},
     slow |-> {}, over |-> {}]

\* peers.rs:449-479, the first loop over self.iter(): banned, not connected,
\* abusive and stuck peers go to the removal list.
CleanFirstLoop(obs) ==
    {a \in iter : \/ peers[a].banned
                  \/ ~is_connected(peers[a])
                  \/ obs[a].bad # "no"}

\* The peers for which the first loop calls update_state, and the state it
\* asks for: the abusive and the stuck ones, unless banned or disconnected.
CleanUpdates(obs) ==
    [a \in {b \in iter : /\ ~peers[b].banned
                         /\ is_connected(peers[b])
                         /\ obs[b].bad # "no"} |->
       IF obs[a].bad = "abusive" THEN "Banned" ELSE "Defunct"]

\* peers.rs:483, 563: self.iter().outbound().connected() and
\* self.iter().inbound().connected().
outbound_peers(obs) == {a \in iter : obs[a].out /\ is_connected(peers[a])}

inbound_peers(obs) == {a \in iter : ~obs[a].out /\ is_connected(peers[a])}

\* peers.rs:485-499: with a boost capability, the outbound peers above
\* max_outbound_count / 2 are shed among those that are not preferred and
\* lack the capability.
BoostCandidates(args, obs) ==
    IF args.boost
    THEN {a \in outbound_peers(obs) : a \notin args.pref /\ ~obs[a].cap}
    ELSE {}

BoostExcess(args, obs) ==
    IF args.boost
    THEN SatSub(Cardinality(outbound_peers(obs)), args.maxOut \div 2)
    ELSE 0

\* Mutant: peer_infos without the filter.
PeerInfos_All(args, obs) == outbound_peers(obs)

\* peers.rs:519-522: peer_infos, the outbound peers that are not preferred.
PeerInfos(args, obs) == outbound_peers(obs) \ args.pref

\* peers.rs:525-542: fail_counter of every lagging peer of peer_infos; it
\* becomes next_failures.
FailCounters(args, obs) ==
    [a \in {b \in PeerInfos(args, obs) : obs[b].lag} |->
       Min(prune.failures[a] + 1, MaxFailures)]

\* peers.rs:531-538: the lagging peers whose counter has reached 3.
Underperforming(args, obs) ==
    {a \in DOMAIN FailCounters(args, obs) :
       FailCounters(args, obs)[a] >= MaxFailures}

\* peers.rs:528: the blocks a peer may be behind.
LagBlocks == 2

\* peers.rs:528-529: the test of the failure loop on a PeerInfo.
lagging(i, my) ==
    i.height < SatSub(my.height, LagBlocks) /\ i.diff < my.diff

\* peers.rs:547-553: the sort key, the total difficulty, halved for a peer
\* whose base fee is below ours.
score(i) == IF i.lowfee THEN i.diff \div 2 ELSE i.diff

\* Mutant: take(k) without the sort.
LowestScored_Unsorted(S, k) == KSubsets(S, k)

\* peers.rs:547-558: sort_unstable_by_key and take(k): k peers of S with
\* the lowest keys, peers with equal keys in any order.
LowestScored(S, k) ==
    {T \in KSubsets(S, k) :
        \A t \in T, u \in S \ T :
           score(prune.info[t]) <= score(prune.info[u])}

\* peers.rs:505-508, 544: min(2, outbound - max_outbound_count) less the
\* peers the failure loop has just listed.
ExcessOutgoing(args, obs) ==
    SatSub(Min(MaxShed, SatSub(Cardinality(outbound_peers(obs)), args.maxOut)),
           Cardinality(Underperforming(args, obs)))

\* Mutant: the inbound peers are shed one per call.
ExcessIncoming_OneAtATime(args, obs) ==
    Min(1, SatSub(Cardinality(inbound_peers(obs)), args.maxIn))

\* peers.rs:566: inbound peers above max_inbound_count.
ExcessIncoming(args, obs) ==
    SatSub(Cardinality(inbound_peers(obs)), args.maxIn)

\* Peers::clean_peers (peers.rs:436-590) as one step of the monitor thread.
\* The removal list is the first loop's peers, then (take(n) of a Vec in
\* HashMap order: any n of them) the shed boost candidates, the
\* underperforming peers, the excess outbound peers with the lowest keys
\* and (any n of them) the excess inbound peers;
\* out_peers_failures is replaced by next_failures; then, unless the write
\* lock times out, every listed peer is stopped and removed.  storeOk: the
\* update_state calls of the first loop succeed (their result is dropped).
CleanPeers(args, obs, storeOk) ==
    \E rm2 \in KSubsets(BoostCandidates(args, obs),
                        Min(BoostExcess(args, obs),
                            Cardinality(BoostCandidates(args, obs)))),
       rm4 \in LowestScored(PeerInfos(args, obs),
                            Min(ExcessOutgoing(args, obs),
                                Cardinality(PeerInfos(args, obs)))),
       rm5 \in KSubsets(inbound_peers(obs) \ args.pref,
                        Min(ExcessIncoming(args, obs),
                            Cardinality(inbound_peers(obs) \ args.pref))) :
      LET rm == CleanFirstLoop(obs) \cup rm2 \cup Underperforming(args, obs)
                   \cup rm4 \cup rm5
          fc == FailCounters(args, obs)
          up == CleanUpdates(obs)
      IN /\ peers' = IF MapLocked THEN peers
                     ELSE [b \in DOMAIN peers \ rm |-> peers[b]]
         /\ store' = IF storeOk
                     THEN [b \in Addrs |->
                             IF b \in DOMAIN up THEN up[b] ELSE store[b]]
                     ELSE store
         /\ prune' = [prune EXCEPT
                        !.failures = [b \in Addrs |->
                                        IF b \in DOMAIN fc THEN fc[b] ELSE 0],
                        !.calls = Min(@ + 1, 2),
                        !.shed = rm4,
                        !.trim = rm2,
                        !.slow = Underperforming(args, obs),
                        !.over = rm5]
         /\ UNCHANGED <<excluded, mapLock, ban, connVars, unban, add, known,
                        fan, boost, lk, srvVars>>

\* One of several calls in succession: the same arguments, and the same
\* peers making the same observations.
CleanAgain(storeOk) == CleanPeers(prune.args, prune.obs, storeOk)

\* Peers::new (peers.rs:63-82): an empty map and an empty excluded set, over
\* a store without records.
InitPeers ==
    /\ peers = EmptyMap
    /\ store = [a \in Addrs |-> "None"]
    /\ excluded = {}
    /\ mapLock = FALSE
    /\ ban = NoBan

(***************************************************************************)
(* Initial state and specifications                                        *)
(***************************************************************************)
\* conn.rs:178-215 listen(): empty channel, stop flag false, both threads
\* spawned.
InitConn ==
    /\ queue = <<>>
    /\ sendCount = [p \in Producers |-> 0]
    /\ sendArm = "None"
    /\ sendRet = "None"
    /\ accepted = <<>>
    /\ stopped = FALSE
    /\ peerHandle = TRUE
    /\ streamShut = FALSE
    /\ rpc = "read"
    /\ attachment = FALSE
    /\ rmsg = NoMsg
    /\ rexit = "none"
    /\ wpc = "recv"
    /\ data = <<>>
    /\ retry_send = NoRetry
    /\ wire = <<>>
    /\ werrs = 0
    /\ wexit = "none"

\* ======================================================================
\* Part VI: the locks of the registry
\* ======================================================================
\* Every call of Peers is followed here as the sequence of lock operations
\* it performs, in source order.  The locks are the RwLocks of Peers
\* (peers.rs:54-60) and the lock the peer store serialises its calls with.

Locks == {"peers", "excluded_peers", "out_peers_failures", "store"}

\* The threads calling into the registry: two callers of the public
\* functions and the reader thread of one peer, running the handlers of
\* the NetAdapter (peers.rs:640-965).
PeerThread == "p"
Threads == {"t1", "t2", PeerThread}

LockCalls == {"add_connected", "ban_peer", "unban_peer", "broadcast",
              "check_all", "clean_peers", "stop", "iter",
              "set_excluded_peers"}

\* The handlers of a peer thread reach ban_peer (peers.rs:690, 715, 731,
\* 958), the iterator and the broadcasts; Peers::stop is called by the
\* server only.
CallsOf(t) ==
    IF t = PeerThread THEN {"ban_peer", "iter", "broadcast"} ELSE LockCalls

\* A blocking acquisition, RwLock::read / RwLock::write.
Acq(l, m, n) == [op |-> "acq", lock |-> l, mode |-> m, to |-> {n}, else |-> 0]
\* A timed acquisition, try_read_for / try_write_for(LOCK_TIMEOUT): on to n
\* with the guard, or on to e without it.
Try(l, m, n, e) == [op |-> "try", lock |-> l, mode |-> m, to |-> {n}, else |-> e]
\* The guard of l is dropped; the call continues at one of S (0: it returns).
Rel(l, S) == [op |-> "rel", lock |-> l, mode |-> "-", to |-> S, else |-> 0]
\* Peer::wait: the peer's threads are joined.
Join(n) == [op |-> "join", lock |-> "-", mode |-> "-", to |-> {n}, else |-> 0]

\* A call of the peer store: the store's lock is taken for the call.
StoreCall(k, S) == <<Acq("store", "w", k + 1), Rel("store", S)>>

\* peers.rs:188-207, Peers::iter, its first step being step k: the read
\* guard of excluded_peers lives to the end of the function, the read
\* guard of the map to the end of the statement that collects the snapshot.
iter_locks(k, S) ==
    << Acq("excluded_peers", "r", k + 1),
       Try("peers", "r", k + 2, k + 3),
       Rel("peers", {k + 3}),
       Rel("excluded_peers", S) >>

\* peers.rs:131-155: the map's write guard is scoped (133-150), save_peer
\* follows the scope (151).
add_connected_locks ==
    << Try("peers", "w", 2, 0), Rel("peers", {3}) >> \o StoreCall(3, {0})

\* ban_peer with the map taken by a blocking write().
ban_peer_locks_Blocking ==
    StoreCall(1, {0, 3}) \o iter_locks(3, {0, 7})
        \o << Acq("peers", "w", 8), Rel("peers", {0}) >>

\* peers.rs:221-254: update_state (232), get_connected_peer (235, through
\* iter), then the timed write of the map for the removal (245-249).
ban_peer_locks ==
    StoreCall(1, {0, 3}) \o iter_locks(3, {0, 7})
        \o << Try("peers", "w", 8, 0), Rel("peers", {0}) >>

\* peers.rs:257-266: get_peer (260), is_banned (261), update_state (262).
unban_peer_locks ==
    StoreCall(1, {0, 3}) \o StoreCall(3, {0, 5}) \o StoreCall(5, {0})

\* peers.rs:268-297: the snapshot (274), then for each failed send the
\* timed write of the map (284), dropped at the end of the arm (293); a
\* timeout breaks the loop (288).
broadcast_locks ==
    iter_locks(1, {0, 5}) \o << Try("peers", "w", 6, 0), Rel("peers", {0, 5}) >>

\* peers.rs:351-366: as broadcast, with the timed write at 355.
check_all_locks ==
    iter_locks(1, {0, 5}) \o << Try("peers", "w", 6, 0), Rel("peers", {0, 5}) >>

\* peers.rs:436-590: the first loop over a snapshot (449) with its
\* update_state calls (464, 472); the snapshots of outbound_peers (483,
\* taken at 487-507); out_peers_failures.write() (516), held to the end of
\* the function; further snapshots (519, 566-568); the timed write of the
\* map for the removal (578), a timeout returning (582).
clean_peers_locks ==
    iter_locks(1, {5, 7}) \o StoreCall(5, {5, 7}) \o iter_locks(7, {11})
        \o << Acq("out_peers_failures", "w", 12) >>
        \o iter_locks(12, {16})
        \o << Try("peers", "w", 17, 18), Rel("peers", {18}),
              Rel("out_peers_failures", {0}) >>

\* peers.rs:592-600, Peers::stop: a blocking write() of the map, held while
\* every peer is stopped and waited for.
stop_locks == << Acq("peers", "w", 2), Join(3), Rel("peers", {0}) >>

\* peers.rs:85-91.
set_excluded_peers_locks ==
    << Acq("excluded_peers", "w", 2), Rel("excluded_peers", {0}) >>

LockProgram(o) ==
    CASE o = "add_connected" -> add_connected_locks
      [] o = "ban_peer" -> ban_peer_locks
      [] o = "unban_peer" -> unban_peer_locks
      [] o = "broadcast" -> broadcast_locks
      [] o = "check_all" -> check_all_locks
      [] o = "clean_peers" -> clean_peers_locks
      [] o = "stop" -> stop_locks
      [] o = "iter" -> iter_locks(1, {0})
      [] OTHER -> set_excluded_peers_locks

\* No call in progress, no guard held, no lock yet taken under another.
NoLk == [op |-> [t \in Threads |-> "none"], pc |-> [t \in Threads |-> 0],
         holds |-> [t \in Threads |-> {}], order |-> {}]

Running(t) == lk.pc[t] # 0

\* The lock operation thread t is at.
Instr(t) == LockProgram(lk.op[t])[lk.pc[t]]

HeldLocks(t) == {h[1] : h \in lk.holds[t]}

\* Thread t is parked in a blocking write() of lock l.
WriterParked(t, l) ==
    /\ Running(t)
    /\ Instr(t).op = "acq" /\ Instr(t).lock = l /\ Instr(t).mode = "w"

\* parking_lot's RwLock: a write needs the lock free, a read needs it free
\* of writers, held or parked (readers queue behind a parked writer); a
\* guard the thread itself holds counts like any other.
Available(t, l, m) ==
    IF m = "w"
    THEN \A u \in Threads : l \notin HeldLocks(u)
    ELSE /\ \A u \in Threads : <<l, "w">> \notin lk.holds[u]
         /\ \A u \in Threads \ {t} : ~WriterParked(u, l)

\* A call begins.
LockCall(t, o) ==
    /\ ~Running(t)
    /\ o \in CallsOf(t)
    /\ lk' = [lk EXCEPT !.op[t] = o, !.pc[t] = 1]
    /\ UNCHANGED <<connVars, peers, store, excluded, mapLock, ban, unban,
                   add, known, fan, prune, boost, srvVars>>

\* A lock is acquired, at once or after a wait; the locks held at that
\* moment are recorded as taken before it.
LockAcquire(t) ==
    /\ Running(t)
    /\ Instr(t).op \in {"acq", "try"}
    /\ Available(t, Instr(t).lock, Instr(t).mode)
    /\ \E n \in Instr(t).to :
         lk' = [lk EXCEPT
                  !.pc[t] = n,
                  !.holds[t] = @ \cup {<<Instr(t).lock, Instr(t).mode>>},
                  !.order = @ \cup {<<h, Instr(t).lock>> : h \in HeldLocks(t)}]
    /\ UNCHANGED <<connVars, peers, store, excluded, mapLock, ban, unban,
                   add, known, fan, prune, boost, srvVars>>

\* try_read_for / try_write_for gives up: the lock stayed unavailable for
\* LOCK_TIMEOUT.
LockTimeout(t) ==
    /\ Running(t)
    /\ Instr(t).op = "try"
    /\ ~Available(t, Instr(t).lock, Instr(t).mode)
    /\ lk' = [lk EXCEPT !.pc[t] = Instr(t).else,
                        !.op[t] = IF Instr(t).else = 0 THEN "none" ELSE @]
    /\ UNCHANGED <<connVars, peers, store, excluded, mapLock, ban, unban,
                   add, known, fan, prune, boost, srvVars>>

\* A guard is dropped.
LockRelease(t) ==
    /\ Running(t)
    /\ Instr(t).op = "rel"
    /\ \E n \in Instr(t).to :
         lk' = [lk EXCEPT
                  !.pc[t] = n,
                  !.op[t] = IF n = 0 THEN "none" ELSE @,
                  !.holds[t] = {h \in @ : h[1] # Instr(t).lock}]
    /\ UNCHANGED <<connVars, peers, store, excluded, mapLock, ban, unban,
                   add, known, fan, prune, boost, srvVars>>

\* Peer::wait returns once the peer's thread has left its handler.
LockJoin(t) ==
    /\ Running(t)
    /\ Instr(t).op = "join"
    /\ ~Running(PeerThread)
    /\ \E n \in Instr(t).to : lk' = [lk EXCEPT !.pc[t] = n]
    /\ UNCHANGED <<connVars, peers, store, excluded, mapLock, ban, unban,
                   add, known, fan, prune, boost, srvVars>>

\* Thread t cannot take its next step before another thread has acted.
Waiting(t) ==
    /\ Running(t)
    /\ \/ Instr(t).op = "acq" /\ ~Available(t, Instr(t).lock, Instr(t).mode)
       \/ Instr(t).op = "join" /\ Running(PeerThread)

\* The threads whose step thread t is waiting for.
WaitsFor(t) ==
    IF Instr(t).op = "join"
    THEN {PeerThread}
    ELSE {u \in Threads :
            \/ /\ Instr(t).lock \in HeldLocks(u)
               /\ Instr(t).mode = "w" \/ <<Instr(t).lock, "w">> \in lk.holds[u]
            \/ /\ Instr(t).mode = "r"
               /\ u # t
               /\ WriterParked(u, Instr(t).lock)}

\* A set of threads each of which waits, and only for threads of the set.
Deadlocked(S) ==
    /\ S # {}
    /\ \A t \in S : Waiting(t) /\ WaitsFor(t) \subseteq S

\* ======================================================================
\* Part VII: boost mode
\* ======================================================================

\* Capabilities values a hint can carry: UNKNOWN and two others.
BoostCapabilities == {"UNKNOWN", "capA", "capB"}

\* The clock, Utc::now(), in whole seconds from 0 to MaxClock.
MaxClock == 130

\* peers.rs:110: the length of the window in seconds.
BoostSeconds == 120

\* The answers of the Sync Manager (syncer.rs:156-192).
SyncRequestResponses ==
    {"WaitingForPeers", "Syncing", "HasMoreHeadersToApply", "SyncDone"}

\* Peers::new (peers.rs:75-78): capabilities UNKNOWN, time
\* DateTime::default().  now is the clock; hint and since are history: the
\* hint last published and the clock reading when the published hint last
\* differed from the one published before it; ret is the value returned by
\* an is_boosting_mode call that was the last step (asked).
NoBoost == [capabilities |-> "UNKNOWN", time |-> 0, now |-> 0,
            hint |-> "UNKNOWN", since |-> 0, asked |-> FALSE, ret |-> FALSE]

\* peers.rs:93-101: the record is replaced, and its time taken from the
\* clock, only when the capabilities differ from the stored ones.
set_boost_peers_capabilities(b, c) ==
    IF b.capabilities # c
    THEN [b EXCEPT !.capabilities = c, !.time = b.now]
    ELSE b

\* is_boosting_mode with the 120th second still inside the window.
is_boosting_mode_Inclusive(b) ==
    IF b.capabilities = "UNKNOWN"
    THEN FALSE
    ELSE b.now - b.time <= BoostSeconds

\* peers.rs:104-111: false for UNKNOWN, else whether fewer than 120 whole
\* seconds lie between the stored time and now.
is_boosting_mode(b) ==
    IF b.capabilities = "UNKNOWN"
    THEN FALSE
    ELSE b.now - b.time < BoostSeconds

\* syncer.rs:156-177: the hint the sync loop publishes for a response, the
\* Manager's peers_capabilities for WaitingForPeers and Syncing, UNKNOWN for
\* SyncDone.
Published(resp, c) == IF resp = "SyncDone" THEN "UNKNOWN" ELSE c

\* The boost record after one turn of the sync loop's match
\* (syncer.rs:156-193): only WaitingForPeers, Syncing and SyncDone publish
\* (168-171, 192).
SyncLoopBoost(resp, c) ==
    LET publishes == resp \in {"WaitingForPeers", "Syncing", "SyncDone"}
        h == IF publishes THEN Published(resp, c) ELSE boost.hint
        b == IF publishes THEN set_boost_peers_capabilities(boost, h)
             ELSE boost
    IN [b EXCEPT !.hint = h,
                 !.since = IF h # boost.hint THEN boost.now ELSE @,
                 !.asked = FALSE, !.ret = FALSE]

\* One turn of the sync loop's match (syncer.rs:156-193):
\* HasMoreHeadersToApply publishes nothing (168-171).
SyncLoop(resp, c) ==
    /\ resp \in SyncRequestResponses
    /\ c \in BoostCapabilities
    /\ boost' = SyncLoopBoost(resp, c)
    /\ UNCHANGED <<connVars, peers, store, excluded, mapLock, ban, unban,
                   add, known, fan, prune, lk, srvVars>>

\* A second passes (the loop sleeps, syncer.rs:126).
ClockTick ==
    /\ boost.now < MaxClock
    /\ boost' = [boost EXCEPT !.now = @ + 1, !.asked = FALSE, !.ret = FALSE]
    /\ UNCHANGED <<connVars, peers, store, excluded, mapLock, ban, unban,
                   add, known, fan, prune, lk, srvVars>>

\* A caller asks is_boosting_mode.
IsBoostingMode ==
    /\ ~boost.asked
    /\ boost' = [boost EXCEPT !.asked = TRUE, !.ret = is_boosting_mode(boost)]
    /\ UNCHANGED <<connVars, peers, store, excluded, mapLock, ban, unban,
                   add, known, fan, prune, lk, srvVars>>

\* ======================================================================
\* Part VIII: the server
\* ======================================================================

\* a1 is a socket address, a2 an onion address (PeerAddr::Ip / Onion).
AddrKind(a) == IF a = "a2" THEN "Onion" ELSE "Ip"

\* serv.rs:194, 335: the room left above the configured peer counts.
ExtraConnections == 10

\* Registered peers at addresses other than Addrs are only counted, up to
\* MaxOthers of them.
MaxOthers == 12

\* What Server::connect reads of its surroundings for one address:
\*   production  global::is_production_mode()
\*   denied      Peer::is_denied(&config, addr)
\*   advertised  handshake.addrs contains addr
\*   selfOnion   config's self_onion_address: none, addr itself, or another
\*   loopback    addr.is_loopback()
\*   maxIn, maxOut  peer_max_inbound_count(), peer_max_outbound_count(true)
ConnectEnv ==
    [production : BOOLEAN, denied : BOOLEAN, advertised : BOOLEAN,
     selfOnion : {"none", "addr", "other"}, loopback : BOOLEAN,
     maxIn : 0..MaxCount, maxOut : 0..MaxCount]

\* The number of entries of the map.
RegistrySize == Cardinality(DOMAIN peers) + srv.others

\* peers.rs:122-127: the size of the map, 0 when the read lock is not
\* acquired within LOCK_TIMEOUT.
get_number_connected_peers == IF MapLocked THEN 0 ELSE RegistrySize

\* serv.rs:193-194.
max_allowed_connections(env) == env.maxIn + env.maxOut + ExtraConnections

\* serv.rs:201-227: the address is refused as the node's own, in production
\* mode only; the onion and loopback tests need a configured
\* self_onion_address.
PeerWithSelf(a, env) ==
    /\ env.production
    /\ \/ env.advertised
       \/ /\ env.selfOnion # "none"
          /\ IF AddrKind(a) = "Onion"
             THEN env.selfOnion = "addr"
             ELSE env.loopback

\* Server::connect without the test of the deny list.
connect_checks_NoDeny(a, env) ==
    IF srv.stopped THEN "ConnectionClose"
    ELSE IF get_number_connected_peers > max_allowed_connections(env)
    THEN "ConnectionClose"
    ELSE IF PeerWithSelf(a, env) THEN "PeerWithSelf"
    ELSE IF get_connected_peer(a) # {} THEN "Peer"
    ELSE "dial"

\* serv.rs:181-233, Server::connect up to the dialling: the error it
\* returns, "Peer" when it returns the handle of the connected peer, "dial"
\* when it goes on.
connect_checks(a, env) ==
    IF srv.stopped THEN "ConnectionClose"
    ELSE IF env.denied THEN "ConnectionClose"
    ELSE IF get_number_connected_peers > max_allowed_connections(env)
    THEN "ConnectionClose"
    ELSE IF PeerWithSelf(a, env) THEN "PeerWithSelf"
    ELSE IF get_connected_peer(a) # {} THEN "Peer"
    ELSE "dial"

\* The Server::connect call in progress or the last one's outcome.  History
\* of the moment of the call: why, the reasons for a refusal that applied
\* (stopping, denied, full, self); prod, production mode; locked, the map
\* was write-locked; refused, one of the tests before line 229 returned
\* an error; had, the address was in the map; conn, its peer was
\* connected.  dialled: a connection was opened; spawned: a
\* Peer with its worker pair was created; replaced: add_connected
\* overwrote an entry of the map.
NoConnect == [pc |-> "idle", addr |-> "a1", why |-> {}, prod |-> FALSE,
              locked |-> FALSE, refused |-> FALSE, had |-> FALSE,
              conn |-> FALSE, ret |-> "None", dialled |-> FALSE,
              spawned |-> FALSE, replaced |-> FALSE]

\* The reasons for which the address should be refused at this moment.
RefusalReasons(a, env) ==
    {w \in {"stopping", "denied", "full", "self"} :
        \/ w = "stopping" /\ srv.stopped
        \/ w = "denied" /\ env.denied
        \/ w = "full" /\ RegistrySize > max_allowed_connections(env)
        \/ w = "self" /\ \/ env.advertised
                         \/ AddrKind(a) = "Onion" /\ env.selfOnion = "addr"}

\* serv.rs:181-233.
ConnectBegin(a, env) ==
    /\ srv.connect.pc = "idle"
    /\ LET r == connect_checks(a, env)
       IN srv' = [srv EXCEPT !.connect =
                    [NoConnect EXCEPT
                       !.pc = IF r = "dial" THEN "dial" ELSE "done",
                       !.addr = a,
                       !.why = RefusalReasons(a, env),
                       !.prod = env.production,
                       !.locked = MapLocked,
                       !.refused = r \in {"ConnectionClose", "PeerWithSelf"},
                       !.had = a \in DOMAIN peers,
                       !.conn = a \in DOMAIN peers /\ is_connected(peers[a]),
                       !.ret = IF r = "dial" THEN "None" ELSE r]]
    /\ UNCHANGED <<connVars, peers, store, excluded, mapLock, ban, unban,
                   add, known, fan, prune, boost, lk, sync, recv, rate, gossip>>

\* The results of the dialling and of Peer::connect (serv.rs:245-311).
DialOutcomes == {"Connection", "Chain", "Handshake", "Ok"}

\* serv.rs:245-311: an onion address without a socks proxy is given up
\* (287-293); else the stream is opened, which can fail (258, 263, 284),
\* then total_difficulty (299) and Peer::connect (301-311) can.  socks:
\* socks_port is not 0.
ConnectDial(socks, res) ==
    /\ srv.connect.pc = "dial"
    /\ res \in DialOutcomes
    /\ srv' = [srv EXCEPT !.connect =
                 IF AddrKind(srv.connect.addr) = "Onion" /\ ~socks
                 THEN [@ EXCEPT !.pc = "done", !.ret = "ConnectionClose"]
                 ELSE IF res = "Ok"
                 THEN [@ EXCEPT !.pc = "register", !.dialled = TRUE,
                                !.spawned = TRUE]
                 ELSE [@ EXCEPT !.pc = "done", !.dialled = res # "Connection",
                                !.ret = res]]
    /\ UNCHANGED <<connVars, peers, store, excluded, mapLock, ban, unban,
                   add, known, fan, prune, boost, lk, sync, recv, rate, gossip>>

\* serv.rs:312-314: add_connected(peer), whose Timeout is returned.
ConnectRegister(saveOk) ==
    /\ srv.connect.pc = "register"
    /\ IF MapLocked
       THEN /\ srv' = [srv EXCEPT !.connect.pc = "done",
                                  !.connect.ret = "Timeout"]
            /\ UNCHANGED <<peers, store>>
       ELSE /\ peers' = Insert(peers, srv.connect.addr, NewPeer)
            /\ store' = IF saveOk
                        THEN [store EXCEPT ![srv.connect.addr] = "Healthy"]
                        ELSE store
            /\ srv' = [srv EXCEPT
                         !.connect.pc = "done",
                         !.connect.ret = "New",
                         !.connect.replaced = srv.connect.addr \in DOMAIN peers]
    /\ UNCHANGED <<connVars, excluded, mapLock, ban, unban,
                   add, known, fan, prune, boost, lk, sync, recv, rate, gossip>>

\* The caller takes the result.
ConnectReturn ==
    /\ srv.connect.pc = "done"
    /\ srv' = [srv EXCEPT !.connect = NoConnect]
    /\ UNCHANGED <<connVars, peers, store, excluded, mapLock, ban, unban,
                   add, known, fan, prune, boost, lk, sync, recv, rate, gossip>>

\* serv.rs:412, Server::stop: the stop flag is set; halt follows the call
\* (none / flagged / draining / done).
ServerStop ==
    /\ ~srv.stopped
    /\ srv' = [srv EXCEPT !.stopped = TRUE, !.halt = "flagged"]
    /\ UNCHANGED <<connVars, peers, store, excluded, mapLock, ban, unban,
                   add, known, fan, prune, boost, lk, sync, recv, rate, gossip>>

\* Peers at further addresses register or leave.
OtherPeers(n) ==
    /\ n \in 0..MaxOthers
    /\ ~MapLocked
    /\ n \in {srv.others - 1, srv.others + 1}
    /\ srv' = [srv EXCEPT !.others = n]
    /\ UNCHANGED <<connVars, peers, store, excluded, mapLock, ban, unban,
                   add, known, fan, prune, boost, lk, sync, recv, rate, gossip>>

\* The socket address of a1 as an IPv4-mapped IPv6 address.
MappedAddr == "a1m"

\* The addresses an accepted stream can report as its peer's.
StreamAddrs == {"a1", MappedAddr}

\* serv.rs:126-144, listen: an IPv4-mapped IPv6 socket address is
\* converted to its IPv4 form.
to_ipv4(x) == IF x = MappedAddr THEN "a1" ELSE x

\* What an admission reads of its surroundings: the registered peers that
\* are inbound, peer_max_inbound_count(), peer_listener_buffer_count() and
\* peer_max_outbound_count(true).
AcceptEnv ==
    [inbound : SUBSET Addrs, maxIn : 0..MaxCount, buffer : 0..MaxCount,
     maxOut : 0..MaxCount]

\* serv.rs:374: self.peers.iter().inbound().connected().count().
InboundCount(env) ==
    Cardinality({a \in iter : a \in env.inbound /\ is_connected(peers[a])})

\* serv.rs:373-404, Server::check_undesirable: the address looked up in
\* the store (382) and in the map (388) is stream.peer_addr() as it is
\* (380-381); the store has no record of an address nobody saved.
check_undesirable(x, env) ==
    \/ InboundCount(env) >= env.maxIn + env.buffer
    \/ x \in Addrs /\ is_banned(x)
    \/ is_known(x) # "False"

\* The admission in progress in listen, or the last one's outcome: the
\* stream's peer address; und, history: at the accept, the inbound peers
\* were at their limit, or the converted address was banned in the store,
\* or the address was in the map, or the map was locked; shut, the stream was shut down; ran,
\* the handshake was run and hs is its outcome; registered, the peer was
\* added to the map; ban, add_banned was called and Saved or Failed.
NoAccept == [pc |-> "idle", raw |-> "a1", und |-> FALSE, shut |-> FALSE,
             ran |-> FALSE, hs |-> "None", registered |-> FALSE,
             ban |-> "None", ret |-> "None"]

\* serv.rs:113-152 and 329-340: a stream is accepted; it is shut down if
\* undesirable (146-152); else handle_new_peer begins and gives up when
\* the server is stopping or holds too many connections.
AcceptBegin(x, env) ==
    /\ srv.accept.pc = "idle"
    /\ x \in StreamAddrs
    /\ LET und == \/ InboundCount(env) >= env.maxIn + env.buffer
                  \/ store[to_ipv4(x)] = "Banned"
                  \/ MapLocked
                  \/ x \in DOMAIN peers
           a == [NoAccept EXCEPT !.raw = x, !.und = und]
       IN srv' = [srv EXCEPT !.accept =
                    IF check_undesirable(x, env)
                    THEN [a EXCEPT !.pc = "done", !.shut = TRUE,
                                   !.ret = "Refused"]
                    ELSE IF \/ srv.stopped
                            \/ get_number_connected_peers
                                   > max_allowed_connections(env)
                    THEN [a EXCEPT !.pc = "done", !.ret = "ConnectionClose"]
                    ELSE [a EXCEPT !.pc = "handshake"]]
    /\ UNCHANGED <<connVars, peers, store, excluded, mapLock, ban, unban,
                   add, known, fan, prune, boost, lk, sync, recv, rate, gossip>>

\* The results of Peer::accept (serv.rs:345-353).
HandshakeOutcomes == {"Ok", "ConnectionClose", "Error"}

\* serv.rs:342-357 and 153-162: total_difficulty, Peer::accept and
\* add_connected; any error of these but ConnectionClose makes listen save
\* the converted address as banned for BadHandshake (159), the result of
\* add_banned being dropped.  chainOk: total_difficulty succeeded; saveOk:
\* the store accepted the save.  The address a peer is registered under is
\* the handshake's; only handshakes of peers at an IPv4 address succeed
\* here.
AcceptHandshake(chainOk, hs, saveOk) ==
    /\ srv.accept.pc = "handshake"
    /\ hs \in HandshakeOutcomes
    /\ hs = "Ok" => srv.accept.raw \in Addrs
    /\ LET a == to_ipv4(srv.accept.raw)
           banned == IF saveOk THEN [store EXCEPT ![a] = "Banned"] ELSE store
           saved == IF saveOk THEN "Saved" ELSE "Failed"
       IN IF ~chainOk
          THEN /\ srv' = [srv EXCEPT !.accept.pc = "done",
                                     !.accept.ban = saved,
                                     !.accept.ret = "Chain"]
               /\ store' = banned
               /\ UNCHANGED peers
          ELSE IF hs = "ConnectionClose"
          THEN /\ srv' = [srv EXCEPT !.accept.pc = "done", !.accept.ran = TRUE,
                                     !.accept.hs = hs,
                                     !.accept.ret = "ConnectionClose"]
               /\ UNCHANGED <<peers, store>>
          ELSE IF hs = "Error"
          THEN /\ srv' = [srv EXCEPT !.accept.pc = "done", !.accept.ran = TRUE,
                                     !.accept.hs = hs,
                                     !.accept.ban = saved,
                                     !.accept.ret = "Handshake"]
               /\ store' = banned
               /\ UNCHANGED peers
          ELSE IF MapLocked
          THEN /\ srv' = [srv EXCEPT !.accept.pc = "done", !.accept.ran = TRUE,
                                     !.accept.hs = hs,
                                     !.accept.ban = saved,
                                     !.accept.ret = "Timeout"]
               /\ store' = banned
               /\ UNCHANGED peers
          ELSE /\ srv' = [srv EXCEPT !.accept.pc = "done", !.accept.ran = TRUE,
                                     !.accept.hs = hs,
                                     !.accept.registered = TRUE,
                                     !.accept.ret = "Ok"]
               /\ peers' = Insert(peers, a, NewPeer)
               /\ store' = IF saveOk THEN [store EXCEPT ![a] = "Healthy"]
                           ELSE store
    /\ UNCHANGED <<connVars, excluded, mapLock, ban, unban,
                   add, known, fan, prune, boost, lk, sync, recv, rate, gossip>>

\* serv.rs:171-175: at the end of an iteration the loop of listen is left
\* if the stop flag is set, else it goes on to its next accept.
AcceptReturn ==
    /\ srv.accept.pc = "done"
    /\ srv' = [srv EXCEPT !.accept =
                 IF srv.stopped THEN [NoAccept EXCEPT !.pc = "exited"]
                 ELSE NoAccept]
    /\ UNCHANGED <<connVars, peers, store, excluded, mapLock, ban, unban,
                   add, known, fan, prune, boost, lk, sync, recv, rate, gossip>>

\* serv.rs:106-111, 164-175: an iteration of the loop without a stream.
\* paused: stop_state.is_paused(), on which the loop sleeps and starts
\* over; else accept() has nothing (WouldBlock) or fails, and the loop is
\* left if the stop flag is set.
ListenPoll(paused) ==
    /\ srv.accept.pc = "idle"
    /\ srv' = IF ~paused /\ srv.stopped
              THEN [srv EXCEPT !.accept.pc = "exited"]
              ELSE srv
    /\ UNCHANGED <<connVars, peers, store, excluded, mapLock, ban, unban,
                   add, known, fan, prune, boost, lk, sync, recv, rate, gossip>>

\* serv.rs:413 and peers.rs:592-596, Server::stop after the flag:
\* Peers::stop waits for the map's write lock and stops every peer.
ServerStopPeers ==
    /\ srv.halt = "flagged"
    /\ ~MapLocked
    /\ mapLock' = TRUE
    /\ peers' = [b \in DOMAIN peers |-> [peers[b] EXCEPT !.stopped = TRUE]]
    /\ srv' = [srv EXCEPT !.halt = "draining"]
    /\ UNCHANGED <<connVars, store, excluded, ban, unban,
                   add, known, fan, prune, boost, lk, sync, recv, rate, gossip>>

\* peers.rs:597-600, the end of that Peers::stop: the map is drained, every
\* peer joined, the lock released.
ServerStopJoin ==
    /\ srv.halt = "draining"
    /\ mapLock' = FALSE
    /\ peers' = EmptyMap
    /\ srv' = [srv EXCEPT !.halt = "done"]
    /\ UNCHANGED <<connVars, store, excluded, ban, unban,
                   add, known, fan, prune, boost, lk, sync, recv, rate, gossip>>

\* Server::new (serv.rs:60-95): not stopped, no call in progress.
NoSrv == [stopped |-> FALSE, halt |-> "none", others |-> 0,
          connect |-> NoConnect, accept |-> NoAccept]

(***************************************************************************)
(* Part IX.  p2p/src/peers.rs, impl ChainAdapter for Peers                 *)
(***************************************************************************)
\* The *_received calls the registry wraps (peers.rs:664-737).
ReceivedKinds ==
    {"block", "compact_block", "header", "tx_kernel", "transaction"}

\* The calls whose Ok(false) is answered with a ban (peers.rs:680-737).
BanningKinds == {"block", "compact_block", "header"}

\* What the downstream adapter returns: Ok(true), Ok(false) or one of two
\* chain errors.
AdapterResults == {"Ok(true)", "Ok(false)", "Err(Store)", "Err(Invalid)"}

AdapterErrors == {"Err(Store)", "Err(Invalid)"}

\* The reason each wrapper hands to ban_peer (peers.rs:691, 716, 732).
ReasonFor(kind) ==
    CASE kind = "block" -> "BadBlock"
      [] kind = "compact_block" -> "BadCompactBlock"
      [] kind = "header" -> "BadBlockHeader"
      [] OTHER -> "None"

\* Mutant: the result of ban_peer is dropped.
received_result_Swallow(banRet) == "Ok(false)"

\* peers.rs:694-695, 717-718, 733-734: an error of ban_peer is mapped to
\* chain::Error::Other("ban peer error ..") and returned with `?`; else
\* Ok(false).
received_result(banRet) ==
    IF banRet = "Ok" THEN "Ok(false)" ELSE "Err(ban peer error)"

\* A *_received call: its position (idle / ban / done), the wrapper, the
\* sender's address, what the downstream adapter returned, the reason
\* handed to ban_peer and the call's return value.
NoRecv == [pc |-> "idle", kind |-> "block", addr |-> "a1",
           adapter |-> "None", reason |-> "None", ret |-> "None"]

\* The wrapper calls the downstream adapter (peers.rs:669, 677, 687, 708,
\* 728): Err returns by `?`, Ok(false) of a block, compact block or header
\* goes on to ban_peer, every other result is returned as it is.
ReceivedBegin(kind, a, res) ==
    /\ recv.pc = "idle"
    /\ ban.pc = "idle"
    /\ kind \in ReceivedKinds /\ a \in Addrs /\ res \in AdapterResults
    /\ recv' = IF kind \in BanningKinds /\ res = "Ok(false)"
               THEN [pc |-> "ban", kind |-> kind, addr |-> a,
                     adapter |-> res, reason |-> ReasonFor(kind),
                     ret |-> "None"]
               ELSE [pc |-> "done", kind |-> kind, addr |-> a,
                     adapter |-> res, reason |-> "None", ret |-> res]
    /\ UNCHANGED <<connVars, peers, store, excluded, mapLock, ban, unban,
                   add, known, fan, prune, boost, lk, srv, sync, rate, gossip>>

\* The wrapper's call of ban_peer (peers.rs:690-694, 716, 732).
ReceivedBan(storeOk) ==
    /\ recv.pc = "ban"
    /\ BanPeerBegin(recv.addr, storeOk)

\* ban_peer has returned and the wrapper returns (peers.rs:694-696).
ReceivedEnd ==
    /\ recv.pc = "ban"
    /\ ban.pc = "done"
    /\ recv' = [recv EXCEPT !.pc = "done", !.ret = received_result(ban.ret)]
    /\ UNCHANGED <<connVars, peers, store, excluded, mapLock, ban, unban,
                   add, known, fan, prune, boost, lk, srv, sync, rate, gossip>>

\* The caller of the wrapper takes the result.
ReceivedReturn ==
    /\ recv.pc = "done"
    /\ recv' = NoRecv
    /\ ban' = NoBan
    /\ UNCHANGED <<connVars, peers, store, excluded, mapLock, unban,
                   add, known, fan, prune, boost, lk, srv, sync, rate, gossip>>

\* The peer_addrs_received call in progress: its position (idle / save)
\* and to_save, the addresses it is about to save as Healthy.
NoGossip == [pc |-> "idle", to_save |-> {}]

\* peers.rs:927-943, the loop of peer_addrs_received: an address is left
\* out when exists_peer returns Ok(true); okS are the addresses of the
\* list for which exists_peer returns Ok.
new_addrs(S, okS) == {a \in S : ~(a \in okS /\ store[a] # "None")}

\* peers.rs:924-943: the lookups of one received list.
PeerAddrsBegin(S, okS) ==
    /\ gossip.pc = "idle"
    /\ S # {} /\ okS \subseteq S
    /\ gossip' = [pc |-> "save", to_save |-> new_addrs(S, okS)]
    /\ UNCHANGED <<connVars, peers, store, excluded, mapLock, ban, unban,
                   add, known, fan, prune, boost, lk, srv, sync, recv, rate>>

\* peers.rs:944-946: save_peers(to_save) writes a Healthy record for every
\* address of to_save in one batch; its error is only logged.  saveOk:
\* save_peers succeeded.
PeerAddrsSave(saveOk) ==
    /\ gossip.pc = "save"
    /\ store' = IF saveOk
                THEN [a \in Addrs |->
                        IF a \in gossip.to_save THEN "Healthy" ELSE store[a]]
                ELSE store
    /\ gossip' = NoGossip
    /\ UNCHANGED <<connVars, peers, excluded, mapLock, ban, unban,
                   add, known, fan, prune, boost, lk, srv, sync, recv, rate>>

(***************************************************************************)
(* Part X.  servers/src/mwc/sync/syncer.rs                                 *)
(***************************************************************************)
\* SyncStatus values the runner reads and writes, and one further value
\* other components set.
SyncStatuses == {"Initial", "AwaitingPeers", "NoSync", "BodySync"}

\* syncer.rs:77.
MIN_PEERS == 3

\* syncer.rs:69 and 71: wait_secs.
WaitSecsAwaiting == 30

WaitSecsOther == 3

\* The peers wait_for_min_peers looks at: outbound, total difficulty, and
\* yielded by iter() as connected.
MaxWaitPeers == 3

MaxDifficulty == 2

WaitPeers == 1..MaxWaitPeers

\* The count does not depend on the order of the peers: one sample for
\* each multiset of peers.
SampleRank(p) ==
    (IF p.out THEN 1 ELSE 0) + (IF p.conn THEN 2 ELSE 0) + 4 * p.diff

PeerSamples ==
    {ps \in [WaitPeers -> [out : BOOLEAN, diff : 1..MaxDifficulty,
                           conn : BOOLEAN]] :
        \A i \in WaitPeers :
           i < MaxWaitPeers => SampleRank(ps[i]) <= SampleRank(ps[i + 1])}

\* syncer.rs:84-90: iter().outbound().with_difficulty(|x| x.to_num() > 0 &&
\* x >= head.total_difficulty).connected().count().
more_or_same_work(ps, head) ==
    Cardinality({i \in DOMAIN ps :
                    /\ ps[i].out
                    /\ ps[i].diff > 0 /\ ps[i].diff >= head
                    /\ ps[i].conn})

\* A wait_for_min_peers call: its position (idle / check / sleep / done),
\* wait_secs, the status it was chosen for, the local head's difficulty,
\* n, and what the last check read: the stop flag (saw) and the count (wp).
NoWait == [pc |-> "idle", wait_secs |-> 0, status |-> "Initial", head |-> 1,
           n |-> 0, saw |-> FALSE, wp |-> 0, ret |-> "None"]

\* SyncState::update by another component.
SyncStateUpdate(st) ==
    /\ st \in SyncStatuses
    /\ st # sync.status
    /\ sync' = [sync EXCEPT !.status = st]
    /\ UNCHANGED <<connVars, peers, store, excluded, mapLock, ban, unban,
                   add, known, fan, prune, boost, lk, srv, recv, rate, gossip>>

\* syncer.rs:110-113: sync_loop begins with update(AwaitingPeers).
SyncLoopStart ==
    /\ sync.pc = "start"
    /\ sync' = [sync EXCEPT !.pc = "wait", !.status = "AwaitingPeers"]
    /\ UNCHANGED <<connVars, peers, store, excluded, mapLock, ban, unban,
                   add, known, fan, prune, boost, lk, srv, recv, rate, gossip>>

\* syncer.rs:67-76: wait_secs from the status, then chain.head()?.
WaitBegin(headOk, head) ==
    /\ sync.pc = "wait"
    /\ sync.wait.pc = "idle"
    /\ head \in 1..MaxDifficulty
    /\ LET secs == IF sync.status = "AwaitingPeers"
                   THEN WaitSecsAwaiting ELSE WaitSecsOther
           w == [NoWait EXCEPT !.wait_secs = secs, !.status = sync.status,
                               !.head = head]
       IN sync' = [sync EXCEPT !.wait =
                     IF headOk THEN [w EXCEPT !.pc = "check"]
                     ELSE [w EXCEPT !.pc = "done", !.ret = "Err"]]
    /\ UNCHANGED <<connVars, peers, store, excluded, mapLock, ban, unban,
                   add, known, fan, prune, boost, lk, srv, recv, rate, gossip>>

\* syncer.rs:78-103: one check of the loop: break when stopped, count,
\* break when wp >= MIN_PEERS or n > wait_secs.
WaitCheck(ps) ==
    /\ sync.wait.pc = "check"
    /\ ps \in PeerSamples
    /\ LET w == sync.wait
           wp == more_or_same_work(ps, w.head)
       IN sync' = [sync EXCEPT !.wait =
                     IF srv.stopped
                     THEN [w EXCEPT !.pc = "done", !.saw = TRUE,
                                    !.ret = "Ok"]
                     ELSE IF wp >= MIN_PEERS \/ w.n > w.wait_secs
                     THEN [w EXCEPT !.pc = "done", !.wp = wp, !.ret = "Ok"]
                     ELSE [w EXCEPT !.pc = "sleep", !.wp = wp]]
    /\ UNCHANGED <<connVars, peers, store, excluded, mapLock, ban, unban,
                   add, known, fan, prune, boost, lk, srv, recv, rate, gossip>>

\* syncer.rs:104-105: sleep one second, n += 1.
WaitSleep ==
    /\ sync.wait.pc = "sleep"
    /\ sync' = [sync EXCEPT !.wait.pc = "check", !.wait.n = @ + 1]
    /\ UNCHANGED <<connVars, peers, store, excluded, mapLock, ban, unban,
                   add, known, fan, prune, boost, lk, srv, recv, rate, gossip>>

\* syncer.rs:114-116: sync_loop takes the result (an error is logged) and
\* goes on to its main loop.
WaitReturn ==
    /\ sync.pc = "wait"
    /\ sync.wait.pc = "done"
    /\ sync' = [sync EXCEPT !.pc = "top", !.wait = NoWait]
    /\ UNCHANGED <<connVars, peers, store, excluded, mapLock, ban, unban,
                   add, known, fan, prune, boost, lk, srv, recv, rate, gossip>>

\* syncer.rs:119 and 155: the sleep of the sync loop in milliseconds, and
\* 170 after HasMoreHeadersToApply.
SleepTime == 1000

ShortSleepTime == 100

\* syncer.rs:182: the turns of the loop after SyncDone.
ServiceTurns == 20

\* A response of the Manager that the match leaves to its `_` arm
\* (syncer.rs:193).
OtherResponse == "Other"

\* Mutant: the short sleep after Syncing as well.
next_sleep_time_Eager(resp) ==
    IF resp \in {"HasMoreHeadersToApply", "Syncing"}
    THEN ShortSleepTime ELSE SleepTime

\* syncer.rs:155 and 168-171: sleep_time after the match.
next_sleep_time(resp) ==
    IF resp = "HasMoreHeadersToApply" THEN ShortSleepTime ELSE SleepTime

\* syncer.rs:159-173: the status after the match.
next_status(resp, st) ==
    CASE resp = "WaitingForPeers" -> "AwaitingPeers"
      [] resp = "SyncDone" -> "NoSync"
      [] OTHER -> st

\* The fields of a pulse: slept, the length of the sleep that began it;
\* resp and caps, what sync_request returned; prev and after, the status
\* read before the match and left by it; hint, the argument of
\* set_boost_peers_capabilities (None: not called); compacted,
\* chain.compact was called; left, the turns of the loop after SyncDone
\* still to come; fired, its headers_blocks_request calls; late, those of
\* them made when stop had been requested.
NoPulse == [slept |-> 0, resp |-> "None", caps |-> "UNKNOWN",
            prev |-> "Initial", after |-> "Initial", hint |-> "None",
            compacted |-> FALSE, left |-> 0, fired |-> 0, late |-> 0]

\* syncer.rs:120-154: the stop check, the sleep, headers_blocks_request
\* and sync_request.
PulseTop ==
    /\ sync.pc = "top"
    /\ sync' = IF srv.stopped
               THEN [sync EXCEPT !.pc = "exited"]
               ELSE [sync EXCEPT !.pc = "match",
                                 !.pulse.slept = sync.sleep_time]
    /\ UNCHANGED <<connVars, peers, store, excluded, mapLock, ban, unban,
                   add, known, fan, prune, boost, lk, srv, recv, rate, gossip>>

\* syncer.rs:156-194: the match on the response.  debug: a build with
\* debug assertions, in which the `_` arm panics.
PulseMatch(resp, c, debug) ==
    /\ sync.pc = "match"
    /\ resp \in SyncRequestResponses \cup {OtherResponse}
    /\ c \in BoostCapabilities
    /\ LET st == next_status(resp, sync.status)
           done == resp = "SyncDone"
           pl == [NoPulse EXCEPT
                    !.slept = sync.pulse.slept, !.resp = resp, !.caps = c,
                    !.prev = sync.status, !.after = st,
                    !.hint = IF resp \in {"WaitingForPeers", "Syncing",
                                           "SyncDone"}
                             THEN Published(resp, c) ELSE "None",
                    !.compacted = done,
                    !.left = IF done THEN ServiceTurns ELSE 0]
       IN sync' = [sync EXCEPT
                     !.pc = IF done THEN "service"
                            ELSE IF resp = OtherResponse /\ debug
                            THEN "panicked" ELSE "top",
                     !.status = st,
                     !.sleep_time = next_sleep_time(resp),
                     !.pulse = pl]
    /\ boost' = SyncLoopBoost(resp, c)
    /\ UNCHANGED <<connVars, peers, store, excluded, mapLock, ban, unban,
                   add, known, fan, prune, lk, srv, recv, rate, gossip>>

\* syncer.rs:182-184: one turn of the loop after SyncDone reads the stop
\* flag; if it is clear the turn sleeps a second.
ServiceCheck ==
    /\ sync.pc = "service"
    /\ sync' = IF sync.pulse.left = 0
               THEN [sync EXCEPT !.pc = "top"]
               ELSE IF srv.stopped
               THEN [sync EXCEPT !.pulse.left = @ - 1]
               ELSE [sync EXCEPT !.pc = "request"]
    /\ UNCHANGED <<connVars, peers, store, excluded, mapLock, ban, unban,
                   add, known, fan, prune, boost, lk, srv, recv, rate, gossip>>

\* syncer.rs:185-189: after the sleep, headers_blocks_request.
ServiceRequest ==
    /\ sync.pc = "request"
    /\ sync' = [sync EXCEPT
                  !.pc = "service",
                  !.pulse.left = @ - 1,
                  !.pulse.fired = @ + 1,
                  !.pulse.late = IF srv.stopped THEN @ + 1 ELSE @]
    /\ UNCHANGED <<connVars, peers, store, excluded, mapLock, ban, unban,
                   add, known, fan, prune, boost, lk, srv, recv, rate, gossip>>

\* SyncRunner::new (syncer.rs:54-65) and the start of sync_loop.
NoSync == [status |-> "Initial", pc |-> "start", wait |-> NoWait,
           sleep_time |-> SleepTime, pulse |-> NoPulse]

\* Peers::new (peers.rs:63-82): no call in progress.
InitOps ==
    /\ fan = [i \in FanIds |-> NoFan]
    /\ prune = NoPrune
    /\ boost = NoBoost
    /\ lk = NoLk
    /\ srv = NoSrv
    /\ sync = NoSync /\ recv = NoRecv
    /\ rate = NoRate
    /\ gossip = NoGossip
    /\ unban = NoUnban
    /\ add = NoAdd
    /\ known = NoKnown

Init == InitConn /\ InitPeers /\ InitOps

SendAny == \E p \in ExtProducers : Send(p, MaxSends)

Next ==
    \/ SendAny
    \/ Stop
    \/ DropPeer
    \/ ReaderStopCheck
    \/ ReaderRead
    \/ ReaderConsume
    \/ WriterRecv
    \/ WriterDrain
    \/ WriterWrite

\* The workers of one connection with small producer budgets.
Spec == Init /\ [][Next]_vars

\* The same, with the scheduling the code relies on: a blocking read returns
\* within the socket timeout, the handler returns, a queue receive returns
\* within CHANNEL_TIMEOUT and a write within BODY_IO_TIMEOUT, so each worker
\* keeps taking steps until it exits.
FairSpec == Spec /\ WF_vars(Reader) /\ WF_vars(Writer)

\* Overflow specification: a producer bursts past the channel capacity while
\* the writer drains concurrently; the socket is either writable or broken.
SendBurst == \E p \in ExtProducers : Send(p, MaxBurst)

WriterWriteNoTimeout ==
    \E res \in WriteResults \ {"TimedOut", "WouldBlock"} : WriterWriteStep(res)

NextQueue ==
    \/ SendBurst
    \/ WriterRecv
    \/ WriterDrain
    \/ WriterWriteNoTimeout

SpecQueue == Init /\ [][NextQueue]_vars

\* The reader of a connection while the node's sync state changes: every
\* read and every handler outcome, the stop flag set at any time.
NextRate ==
    \/ Stop
    \/ ReaderStopCheck
    \/ ReaderRead
    \/ ReaderConsume
    \/ \E b \in BOOLEAN : SyncChange(b)

SpecRate == Init /\ [][NextRate]_vars


\* The registry: connections come and go, peers are banned, excluded and
\* stopped.
NextPeers ==
    \/ \E a \in Addrs, ok \in BOOLEAN : AddConnected(a, ok)
    \/ \E a \in Addrs, ok \in BOOLEAN : BanPeerBegin(a, ok)
    \/ BanPeerRemove
    \/ BanPeerReturn
    \/ \E a \in Addrs, ok \in BOOLEAN : AddBanned(a, ok)
    \/ \E S \in SUBSET Addrs : SetExcluded(S)
    \/ \E a \in Addrs : PeerWriterExit(a)
    \/ \E a \in Addrs : PeerDisconnected(a)
    \/ PeersStopBegin
    \/ PeersStopEnd

SpecPeers == Init /\ [][NextPeers]_vars

\* The persistent state of an address under bans and unbans.
NextUnban ==
    \/ \E a \in Addrs, r \in BOOLEAN, u \in BOOLEAN : UnbanPeer(a, r, u)
    \/ \E a \in Addrs, ok \in BOOLEAN : AddBanned(a, ok)
    \/ \E a \in Addrs, ok \in BOOLEAN : AddConnected(a, ok)
    \/ \E a \in Addrs, ok \in BOOLEAN : BanPeerBegin(a, ok)
    \/ BanPeerRemove
    \/ BanPeerReturn

SpecUnban == Init /\ [][NextUnban]_vars

\* Admission: add_connected step by step, is_known and ban_peer, while
\* Peers::stop may hold the map lock.
NextAdmit ==
    \/ \E a \in Addrs : AddConnectedLock(a)
    \/ AddConnectedInsert
    \/ \E ok \in BOOLEAN : AddConnectedSave(ok)
    \/ AddConnectedReturn
    \/ \E a \in Addrs : IsKnown(a)
    \/ \E a \in Addrs, ok \in BOOLEAN : BanPeerBegin(a, ok)
    \/ BanPeerRemove
    \/ BanPeerReturn
    \/ PeersStopBegin
    \/ PeersStopEnd

SpecAdmit == Init /\ [][NextAdmit]_vars

\* Drop on error: one thread broadcasts over peers that come and go, while
\* Peers::stop may hold the map lock.
NextDrop ==
    \/ FanBegin(1)
    \/ \E a \in Addrs, conn \in BOOLEAN, res \in SendOutcomes :
          FanVisit(1, a, conn, res)
    \/ FanRemove(1)
    \/ FanEnd(1)
    \/ FanReturn(1)
    \/ \E a \in Addrs : AddConnected(a, TRUE)
    \/ \E a \in Addrs : PeerWriterExit(a)
    \/ \E a \in Addrs : PeerDisconnected(a)
    \/ PeersStopBegin
    \/ PeersStopEnd

SpecDrop == Init /\ [][NextDrop]_vars

\* Fan-out: a broadcast and a ping round run concurrently with each other
\* and with admissions and bans, over peers whose connections end.
NextFan ==
    \/ \E i \in FanIds : FanBegin(i)
    \/ \E i \in FanIds, a \in Addrs, conn \in BOOLEAN, res \in SendOutcomes :
          FanVisit(i, a, conn, res)
    \/ \E i \in FanIds : FanRemove(i)
    \/ \E i \in FanIds : FanEnd(i)
    \/ \E i \in FanIds : FanReturn(i)
    \/ \E a \in Addrs : AddConnected(a, TRUE)
    \/ \E a \in Addrs : BanPeerBegin(a, TRUE)
    \/ BanPeerRemove
    \/ BanPeerReturn
    \/ \E a \in Addrs : PeerDisconnected(a)

SpecFan == Init /\ [][NextFan]_vars

\* Exclusion: the excluded set changes while broadcasts and pings run over
\* the admitted peers.
NextExcl ==
    \/ \E i \in FanIds : FanBegin(i)
    \/ \E i \in FanIds, a \in Addrs, conn \in BOOLEAN, res \in SendOutcomes :
          FanVisit(i, a, conn, res)
    \/ \E i \in FanIds : FanRemove(i)
    \/ \E i \in FanIds : FanEnd(i)
    \/ \E i \in FanIds : FanReturn(i)
    \/ \E S \in SUBSET Addrs : SetExcluded(S)
    \/ \E a \in Addrs : AddConnected(a, TRUE)

SpecExcl == Init /\ [][NextExcl]_vars

\* Calls without a boost capability and without preferred peers, over peers
\* that are neither abusive nor stuck.
LenientArgs == {g \in CleanArgs : ~g.boost /\ g.pref = {}}

QuietObs == {o \in Observations : \A a \in Addrs : o[a].bad = "no"}

\* Pruning: the monitor thread cleans the map while peers are admitted and
\* excluded and their connections end.
NextPrune ==
    \/ \E args \in LenientArgs, obs \in QuietObs, ok \in BOOLEAN :
          CleanPeers(args, obs, ok)
    \/ \E a \in Addrs : AddConnected(a, TRUE)
    \/ \E S \in SUBSET Addrs : SetExcluded(S)
    \/ \E a \in Addrs : PeerWriterExit(a)
    \/ \E a \in Addrs : PeerDisconnected(a)

SpecPrune == Init /\ [][NextPrune]_vars

\* The maps two calls in succession can find: every address absent, freshly
\* connected, connected but banned (ban_peer's removal timed out), or with
\* its connection lost.
PruneMaps ==
    LET Found == {NewPeer,
                  [NewPeer EXCEPT !.banned = TRUE, !.stopped = TRUE],
                  [NewPeer EXCEPT !.alive = FALSE, !.gone = TRUE]}
    IN UNION {[S -> Found] : S \in SUBSET Addrs}

\* clean_peers calls in succession, from any such map and with any arguments
\* and observations.
InitIdem ==
    /\ InitConn
    /\ peers \in PruneMaps
    /\ store = [a \in Addrs |-> "None"]
    /\ excluded = {}
    /\ mapLock = FALSE
    /\ ban = NoBan
    /\ unban = NoUnban
    /\ add = NoAdd
    /\ known = NoKnown
    /\ fan = [i \in FanIds |-> NoFan]
    /\ boost = NoBoost
    /\ lk = NoLk
    /\ srv = NoSrv
    /\ sync = NoSync /\ recv = NoRecv
    /\ rate = NoRate
    /\ gossip = NoGossip
    /\ prune \in {[NoPrune EXCEPT !.args = g, !.obs = o] :
                     g \in CleanArgs, o \in Observations}

NextIdem == \E ok \in BOOLEAN : CleanAgain(ok)

\* clean_peers calls in succession without boost capability or preferred
\* peers, while the set of excluded peers is replaced.
InitSweep == InitIdem /\ prune.args \in LenientArgs

NextSweep ==
    \/ \E ok \in BOOLEAN : CleanAgain(ok)
    \/ \E S \in SUBSET Addrs : SetExcluded(S)

SpecSweep == InitSweep /\ [][NextSweep]_vars

\* The heights the peers report.
MaxHeight == 3

\* The local tip the calls see: total_height and total_difficulty
\* (peers.rs:511-515).
LocalTip == [height |-> MaxHeight, diff |-> MaxDifficulty]

PeerInfoSets ==
    [Addrs -> [height : 0..MaxHeight, diff : 1..MaxDifficulty,
               lowfee : BOOLEAN]]

\* Maps of freshly connected peers.
FreshMaps == UNION {[S -> {NewPeer}] : S \in SUBSET Addrs}

\* clean_peers calls in succession over connected peers, without a boost
\* capability: each peer's PeerInfo is given, and whether the failure loop
\* finds it lagging follows from it.
InitInfo(Obs, Infos) ==
    /\ InitConn
    /\ peers \in FreshMaps
    /\ store = [a \in Addrs |-> "None"]
    /\ excluded = {}
    /\ mapLock = FALSE
    /\ ban = NoBan
    /\ unban = NoUnban
    /\ add = NoAdd
    /\ known = NoKnown
    /\ fan = [i \in FanIds |-> NoFan]
    /\ boost = NoBoost
    /\ lk = NoLk
    /\ srv = NoSrv
    /\ sync = NoSync /\ recv = NoRecv
    /\ rate = NoRate
    /\ gossip = NoGossip
    /\ prune \in {[NoPrune EXCEPT !.args = g, !.obs = o, !.info = i,
                                  !.my = LocalTip] :
                     g \in {h \in CleanArgs : ~h.boost},
                     o \in {q \in Obs : \A a \in Addrs : ~q[a].cap},
                     i \in Infos}
    /\ \A a \in Addrs :
          prune.obs[a].lag =
             (prune.obs[a].out /\ lagging(prune.info[a], prune.my))

\* Peers at any height that are neither abusive nor stuck.
InitLag == InitInfo(QuietObs, PeerInfoSets)

SpecLag == InitLag /\ [][NextIdem]_vars

\* Peers at the local height, abusive and stuck ones among them.
InitShed ==
    InitInfo(Observations,
             {i \in PeerInfoSets : \A a \in Addrs : i[a].height = MaxHeight})

SpecShed == InitShed /\ [][NextIdem]_vars

\* clean_peers calls in succession over freshly connected peers, abusive
\* and stuck ones among them, none of them lagging, without a boost
\* capability, while the set of excluded peers is replaced.
InitOver ==
    /\ InitIdem
    /\ peers \in FreshMaps
    /\ ~prune.args.boost
    /\ \A a \in Addrs : ~prune.obs[a].lag /\ ~prune.obs[a].cap

SpecOver == InitOver /\ [][NextSweep]_vars

\* clean_peers calls in succession from one of Maps, with arguments of Args
\* and observations of Obs.
InitClean(Maps, Args, Obs) ==
    /\ InitConn
    /\ peers \in Maps
    /\ store = [a \in Addrs |-> "None"]
    /\ excluded = {}
    /\ mapLock = FALSE
    /\ ban = NoBan
    /\ unban = NoUnban
    /\ add = NoAdd
    /\ known = NoKnown
    /\ fan = [i \in FanIds |-> NoFan]
    /\ boost = NoBoost
    /\ lk = NoLk
    /\ srv = NoSrv
    /\ sync = NoSync /\ recv = NoRecv
    /\ rate = NoRate
    /\ gossip = NoGossip
    /\ prune \in {[NoPrune EXCEPT !.args = g, !.obs = o] :
                     g \in Args, o \in Obs}

\* The largest max_outbound_count of the calls made with a boost
\* capability.
MaxBoostOut == 2

BoostArgs ==
    [maxIn : {0}, maxOut : 0..MaxBoostOut, boost : {TRUE},
     pref : {{}, {"a1"}}]

\* Calls with a boost capability over freshly connected peers that are
\* neither abusive nor stuck nor lagging.
InitHalf ==
    InitClean(FreshMaps, BoostArgs,
              {o \in QuietObs : \A a \in Addrs : ~o[a].lag})

SpecHalf == InitHalf /\ [][NextSweep]_vars

SpecIdem == InitIdem /\ [][NextIdem]_vars

\* The calls of the registry as lock operations, three threads at a time.
NextLocks ==
    \E t \in Threads :
        \/ \E o \in LockCalls : LockCall(t, o)
        \/ LockAcquire(t)
        \/ LockTimeout(t)
        \/ LockRelease(t)
        \/ LockJoin(t)

SpecLocks == Init /\ [][NextLocks]_vars

\* The sync loop publishing hints, the clock, and callers of
\* is_boosting_mode.
NextBoost ==
    \/ \E resp \in SyncRequestResponses, c \in BoostCapabilities :
          SyncLoop(resp, c)
    \/ ClockTick
    \/ IsBoostingMode

SpecBoost == Init /\ [][NextBoost]_vars

\* Server::connect with Server::stop, registrations by the listener and
\* Peers::stop (Server::pause).
NextConnect ==
    \/ \E a \in Addrs, env \in ConnectEnv : ConnectBegin(a, env)
    \/ \E socks \in BOOLEAN, res \in DialOutcomes : ConnectDial(socks, res)
    \/ ConnectRegister(TRUE)
    \/ ConnectReturn
    \/ ServerStop
    \/ \E n \in 0..MaxOthers : OtherPeers(n)
    \/ \E a \in Addrs : AddConnected(a, TRUE)
    \/ PeersStopBegin
    \/ PeersStopEnd

SpecConnect == Init /\ [][NextConnect]_vars

\* Server::connect to addresses the registry may hold: registrations by
\* the listener, peers whose connection ends, exclusions and Peers::stop.
NextReconnect ==
    \/ \E a \in Addrs, env \in ConnectEnv : ConnectBegin(a, env)
    \/ \E socks \in BOOLEAN, res \in DialOutcomes : ConnectDial(socks, res)
    \/ ConnectRegister(TRUE)
    \/ ConnectReturn
    \/ \E a \in Addrs : AddConnected(a, TRUE)
    \/ \E a \in Addrs : PeerWriterExit(a)
    \/ \E a \in Addrs : PeerDisconnected(a)
    \/ \E S \in SUBSET Addrs : SetExcluded(S)
    \/ PeersStopBegin
    \/ PeersStopEnd

SpecReconnect == Init /\ [][NextReconnect]_vars

\* The admissions of listen, with bans and exclusions, peers whose
\* connection ends, and Server::stop.
NextAccept ==
    \/ \E x \in StreamAddrs, env \in AcceptEnv : AcceptBegin(x, env)
    \/ \E chainOk, saveOk \in BOOLEAN, hs \in HandshakeOutcomes :
          AcceptHandshake(chainOk, hs, saveOk)
    \/ AcceptReturn
    \/ ServerStop
    \/ \E a \in Addrs : PeerWriterExit(a)
    \/ \E a \in Addrs : PeerDisconnected(a)
    \/ \E S \in SUBSET Addrs : SetExcluded(S)
    \/ PeersStopBegin
    \/ PeersStopEnd

SpecAccept == Init /\ [][NextAccept]_vars

\* A Server::connect whose tests pass.
PlainEnv ==
    {e \in ConnectEnv : /\ ~e.production /\ ~e.advertised /\ ~e.loopback
                        /\ e.selfOnion = "none" /\ ~e.denied
                        /\ e.maxIn = MaxCount /\ e.maxOut = MaxCount}

\* Observations of inbound peers, at most one of them abusive or stuck,
\* and calls whose caps leave room for all of them.
InboundObs ==
    {o \in Observations :
        /\ \A a \in Addrs : ~o[a].out
        /\ \E a \in Addrs : o[a].bad = "no"}

RoomyArgs ==
    {[maxIn |-> Cardinality(Addrs), maxOut |-> Cardinality(Addrs),
      boost |-> FALSE, pref |-> {}]}

\* Bans and what else writes the store: Server::connect, ban_peer,
\* add_banned, clean_peers, peer_addrs_received, and the unban_peer calls
\* that lift a ban.
NextBanned ==
    \/ \E a \in Addrs, env \in PlainEnv : ConnectBegin(a, env)
    \/ \E res \in DialOutcomes : ConnectDial(TRUE, res)
    \/ \E ok \in BOOLEAN : ConnectRegister(ok)
    \/ ConnectReturn
    \/ \E a \in Addrs, ok \in BOOLEAN : BanPeerBegin(a, ok)
    \/ BanPeerRemove
    \/ BanPeerReturn
    \/ \E a \in Addrs, ok \in BOOLEAN : AddBanned(a, ok)
    \/ \E a \in Addrs : is_banned(a) /\ UnbanPeer(a, TRUE, TRUE)
    \/ \E args \in RoomyArgs, obs \in InboundObs :
          CleanPeers(args, obs, TRUE)
    \/ \E a \in Addrs, ok \in BOOLEAN :
          PeerAddrsBegin({a}, IF ok THEN {a} ELSE {})
    \/ \E ok \in BOOLEAN : PeerAddrsSave(ok)

SpecBanned == Init /\ [][NextBanned]_vars

\* Lists of addresses arrive from peers while addresses are banned and
\* unbanned and peers are registered.
NextGossip ==
    \/ \E S \in SUBSET Addrs, okS \in SUBSET Addrs : PeerAddrsBegin(S, okS)
    \/ \E ok \in BOOLEAN : PeerAddrsSave(ok)
    \/ \E a \in Addrs, ok \in BOOLEAN : AddBanned(a, ok)
    \/ \E a \in Addrs, ok \in BOOLEAN : AddConnected(a, ok)
    \/ \E a \in Addrs, ok \in BOOLEAN : BanPeerBegin(a, ok)
    \/ BanPeerRemove
    \/ BanPeerReturn
    \/ \E a \in Addrs, readOk, updateOk \in BOOLEAN :
          UnbanPeer(a, readOk, updateOk)

SpecGossip == Init /\ [][NextGossip]_vars

\* Server::stop while Server::connect calls and the listener's admissions
\* are under way.
NextStop ==
    \/ \E a \in Addrs, env \in PlainEnv : ConnectBegin(a, env)
    \/ \E res \in DialOutcomes : ConnectDial(TRUE, res)
    \/ ConnectRegister(TRUE)
    \/ ConnectReturn
    \/ \E x \in StreamAddrs, env \in AcceptEnv : AcceptBegin(x, env)
    \/ \E chainOk \in BOOLEAN, hs \in HandshakeOutcomes :
          AcceptHandshake(chainOk, hs, TRUE)
    \/ AcceptReturn
    \/ ServerStop
    \/ ServerStopPeers
    \/ ServerStopJoin

SpecStop == Init /\ [][NextStop]_vars

\* The configuration of a node with peer_max_inbound_count and
\* peer_max_outbound_count at MaxCount, as Server::connect and the listener
\* read it.
FullEnv == {e \in PlainEnv : e.maxIn = MaxCount /\ e.maxOut = MaxCount}

FullAcceptEnv ==
    {e \in AcceptEnv : e.maxIn = MaxCount /\ e.maxOut = MaxCount}

\* A peer at a further address registers, having passed the size test of
\* serv.rs:195 or 336 at this moment, or leaves.
OtherPeersCapped(n) ==
    /\ n > srv.others =>
          \A e \in FullEnv :
             ~(get_number_connected_peers > max_allowed_connections(e))
    /\ OtherPeers(n)

\* Server::connect calls and the listener's admissions on a registry that
\* fills up.
NextCap ==
    \/ \E a \in Addrs, env \in FullEnv : ConnectBegin(a, env)
    \/ \E res \in DialOutcomes : ConnectDial(TRUE, res)
    \/ ConnectRegister(TRUE)
    \/ ConnectReturn
    \/ \E x \in StreamAddrs, env \in FullAcceptEnv : AcceptBegin(x, env)
    \/ \E chainOk \in BOOLEAN, hs \in HandshakeOutcomes :
          AcceptHandshake(chainOk, hs, TRUE)
    \/ AcceptReturn
    \/ \E n \in 0..MaxOthers : OtherPeersCapped(n)

SpecCap == Init /\ [][NextCap]_vars

\* listen with Server::stop and Server::pause (serv.rs:420-422, a
\* Peers::stop without the stop flag).
NextListen ==
    \/ \E x \in StreamAddrs, env \in AcceptEnv : AcceptBegin(x, env)
    \/ \E chainOk \in BOOLEAN, hs \in HandshakeOutcomes :
          AcceptHandshake(chainOk, hs, TRUE)
    \/ AcceptReturn
    \/ \E paused \in BOOLEAN : ListenPoll(paused)
    \/ ServerStop
    \/ ServerStopPeers
    \/ ServerStopJoin
    \/ srv.halt # "draining" /\ PeersStopBegin
    \/ srv.halt # "draining" /\ PeersStopEnd

\* The listener's thread and the thread calling Server::stop keep running;
\* whether a stream arrives, and pause and stop, are up to the surroundings.
\* Peers::stop blocks in write() (peers.rs:593) until the lock is granted,
\* which a lock that other callers keep taking and releasing does in the
\* end: strong fairness.
FairListen ==
    /\ Init /\ [][NextListen]_vars
    /\ WF_vars(\E chainOk \in BOOLEAN, hs \in HandshakeOutcomes :
                  AcceptHandshake(chainOk, hs, TRUE))
    /\ WF_vars(AcceptReturn)
    /\ WF_vars(\E paused \in BOOLEAN : ListenPoll(paused))
    /\ SF_vars(ServerStopPeers)
    /\ WF_vars(ServerStopJoin)
    /\ WF_vars(srv.halt # "draining" /\ PeersStopEnd)

\* The *_received wrappers with peers connecting, failing and being
\* excluded, and Peers::stop.
NextReceived ==
    \/ \E kind \in ReceivedKinds, a \in Addrs, res \in AdapterResults :
          ReceivedBegin(kind, a, res)
    \/ \E storeOk \in BOOLEAN : ReceivedBan(storeOk)
    \/ BanPeerRemove
    \/ ReceivedEnd
    \/ ReceivedReturn
    \/ \E a \in Addrs : AddConnected(a, TRUE)
    \/ \E a \in Addrs : PeerWriterExit(a)
    \/ \E S \in SUBSET Addrs : SetExcluded(S)
    \/ PeersStopBegin
    \/ PeersStopEnd

SpecReceived == Init /\ [][NextReceived]_vars

\* wait_for_min_peers at the start of sync_loop, with Server::stop and
\* status updates of other components.
NextWait ==
    \/ \E st \in SyncStatuses : SyncStateUpdate(st)
    \/ SyncLoopStart
    \/ \E headOk \in BOOLEAN, head \in 1..MaxDifficulty :
          WaitBegin(headOk, head)
    \/ \E ps \in PeerSamples : WaitCheck(ps)
    \/ WaitSleep
    \/ WaitReturn
    \/ ServerStop

SpecWait == Init /\ [][NextWait]_vars

\* The pulses of sync_loop, with Server::stop and status updates of other
\* components.
NextPulse ==
    \/ \E st \in SyncStatuses : SyncStateUpdate(st)
    \/ SyncLoopStart
    \/ \E headOk \in BOOLEAN, head \in 1..MaxDifficulty :
          WaitBegin(headOk, head)
    \/ \E ps \in PeerSamples : WaitCheck(ps)
    \/ WaitSleep
    \/ WaitReturn
    \/ PulseTop
    \/ \E resp \in SyncRequestResponses \cup {OtherResponse},
          c \in BoostCapabilities, debug \in BOOLEAN :
          PulseMatch(resp, c, debug)
    \/ ServiceCheck
    \/ ServiceRequest
    \/ ServerStop

SpecPulse == Init /\ [][NextPulse]_vars

(***************************************************************************)
(* Properties of one connection                                            *)
(***************************************************************************)
Range(f) == {f[i] : i \in DOMAIN f}

IsPrefix(a, b) == Len(a) <= Len(b) /\ SubSeq(b, 1, Len(a)) = a

From(p, q) == SelectSeq(q, LAMBDA m : m[1] = p)

\* Every message a producer can send.
AllMsgs ==
    {<<p, n>> : p \in ExtProducers, n \in 1..MaxSends}
    \cup {<<"reader", n>> : n \in 1..MaxResponses}

\* A step in which a ConnHandle::send call returns.
SendCall == sendCount' # sendCount

\* The batch the writer holds outside the channel: `data`, or the retry slot.
Inflight == IF retry_send.some THEN retry_send.data ELSE data

\* C1: the outbound queue never holds more than SEND_CHANNEL_CAP (40)
\* messages; a send that meets 40 queued messages on a connected channel
\* returns at once with Ok, leaves the queue as it was (the new message is
\* dropped) and changes neither the stop flag, nor the position of a worker,
\* nor the stream, nor the handle.  (The disconnected channel is C2's case.)
C1_SendNeverOverflows ==
    /\ [](Len(queue) <= SEND_CHANNEL_CAP)
    /\ [][(SendCall /\ Len(queue) = SEND_CHANNEL_CAP /\ RxAlive) =>
             /\ sendRet' = "Ok"
             /\ sendArm' = "Full"
             /\ queue' = queue
             /\ accepted' = accepted
             /\ UNCHANGED <<stopped, rpc, wpc, streamShut, peerHandle>>]_vars

\* The 41st message has been dropped while both workers are running.
C1_Witness ==
    /\ sendArm = "Full"
    /\ sendRet = "Ok"
    /\ sendCount["peer"] = SEND_CHANNEL_CAP + 1
    /\ Len(queue) = SEND_CHANNEL_CAP
    /\ ~stopped
    /\ wpc # "exited"
    /\ ~streamShut

\* C2: ConnHandle::send returns Err exactly when the channel is disconnected,
\* that is when the writer thread (the owner of the receiving end) has
\* terminated; in every other state, a full queue included, it returns Ok.
C2_ErrIffDisconnected ==
    [][SendCall =>
         /\ sendRet' \in {"Ok", "Err"}
         /\ (sendRet' = "Err") <=> (wpc = "exited")
         /\ (sendArm' = "Disconnected") <=> (wpc = "exited")]_vars

\* A send has failed on a terminated writer whose queue is full.
C2_Witness ==
    /\ sendRet = "Err"
    /\ sendArm = "Disconnected"
    /\ wpc = "exited"
    /\ Len(queue) = SEND_CHANNEL_CAP

\* C4 as stated: once the reader loop has been left, the stream is shut down
\* and the writer thread terminates as well.
C4_ReaderBreakEndsWriter ==
    /\ [](rpc = "exited" => streamShut)
    /\ (rpc = "exited") ~> (wpc = "exited")

\* The writer has something to write or to observe: the stop flag, a batch
\* (queued, being drained or written, or kept for a retry), or the Peer's
\* handle being dropped (which, the reader being gone, disconnects the queue).
WriterHasWork ==
    \/ stopped
    \/ queue # <<>>
    \/ retry_send.some
    \/ wpc \in {"drain", "write"}
    \/ ~peerHandle

\* C4 as amended: whenever the reader loop is left the stream is shut down
\* and the step leaves the stop flag as it was; the writer terminates once
\* stop() has been called, once it has a batch to write (the write fails on
\* the stream that is shut down) or once the queue is disconnected.
C4_ReaderBreakShutsStream ==
    /\ [](rpc = "exited" => streamShut /\ rexit # "none")
    /\ [][(rpc # "exited" /\ rpc' = "exited") => stopped' = stopped]_vars
    /\ (rpc = "exited" /\ WriterHasWork) ~> (wpc = "exited")

\* The reader has left its loop on its own and the writer still runs with the
\* stop flag unset.
C4_Witness ==
    /\ rpc = "exited"
    /\ rexit \notin {"none", "stop"}
    /\ streamShut
    /\ ~stopped
    /\ wpc = "recv"

\* C5: once the stop flag is set, the reader starts no further read and the
\* writer no further iteration; a worker that leaves on the flag has shut the
\* stream down; and both workers eventually terminate.
C5_CooperativeStop ==
    /\ [][(stopped /\ rpc = "read" /\ rpc' # rpc) => rpc' = "exited"]_vars
    /\ [][(stopped /\ wpc # "recv") => wpc' # "recv"]_vars
    /\ []((rexit = "stop" \/ wexit = "stop") => (stopped /\ streamShut))
    /\ stopped ~> (rpc = "exited" /\ wpc = "exited")

\* Both workers have left their loops on the stop flag.
C5_Witness ==
    /\ stopped
    /\ rexit = "stop"
    /\ wexit = "stop"
    /\ streamShut

\* C6: while the writer runs, every accepted message is on the wire, in the
\* writer's batch or retry slot, or still queued; a transient write failure
\* puts the whole batch into the retry slot and writes none of it; and the
\* next writer iteration attempts exactly that batch without taking anything
\* from the queue.
C6_RetryKeepsBatch ==
    /\ [](wpc # "exited" => accepted = wire \o Inflight \o queue)
    /\ [][(werrs' # werrs) =>
             /\ retry_send' = [some |-> TRUE, data |-> data]
             /\ data # <<>>
             /\ wire' = wire
             /\ queue' = queue]_vars
    /\ [][(wpc = "recv" /\ retry_send.some /\ wpc' # wpc) =>
             /\ wpc' = "write"
             /\ data' = retry_send.data
             /\ queue' = queue]_vars

\* A failed batch waits in the retry slot while a newer message is queued.
C6_Witness ==
    /\ retry_send.some
    /\ wpc = "recv"
    /\ werrs > 0
    /\ queue # <<>>

\* C7: for each producer, the messages of that producer on the wire are a
\* prefix of its accepted messages: written in enqueue order, none skipped,
\* none twice.
C7_WireOrder ==
    \A p \in Producers : IsPrefix(From(p, wire), From(p, accepted))

\* Two messages of the external producer and a response of the reader are on
\* the wire after a retried batch.
C7_Witness ==
    /\ Len(From("peer", wire)) >= 2
    /\ Len(From("reader", wire)) >= 1
    /\ werrs > 0

\* C8: every message accepted into the queue is eventually on the wire,
\* unless the writer terminates (stop, broken stream, disconnected channel).
\* A message is accepted once, what is on the wire stays there and a writer
\* that has exited stays so: "accepted leads to written or exited" is
\* therefore "the message is never left accepted and unwritten for good".
C8_Delivery ==
    \A m \in AllMsgs :
        []<>(m \notin Range(accepted) \/ m \in Range(wire) \/ wpc = "exited")

\* A message has been written after a transient failure on a healthy peer.
C8_Witness ==
    /\ wire # <<>>
    /\ werrs > 0
    /\ ~stopped
    /\ ~streamShut
    /\ wpc # "exited"
    /\ rpc # "exited"

\* C9: a chunk reaches the handler only if an attachment was open when it
\* arrived; after a final chunk (left = 0) the slot is empty; a chunk that
\* arrives while no attachment is open ends the reader and shuts the stream.
C9_AttachmentProtocol ==
    /\ [](rmsg.kind = "Attachment" => (rpc = "consume" /\ rmsg.open))
    /\ []((rmsg.kind = "Attachment" /\ rmsg.left = 0) => ~attachment)
    /\ [](rexit = "unexpected_chunk" => (rpc = "exited" /\ streamShut))
    /\ [][\A next \in ReadResults, f \in BOOLEAN, y \in BOOLEAN :
            (ReaderReadStep(next, f, y) /\ next.res = "Ok"
               /\ next.kind = "Attachment") =>
              IF ~attachment
              THEN rpc' = "exited" /\ rexit' = "unexpected_chunk"
              ELSE (f /\ next.left = 0 /\ y) =>
                      (~attachment' /\ rpc' = "consume" /\ rmsg'.left = 0)]_vars

\* The final chunk of an open attachment has been written and synced: the
\* slot is empty and the chunk is on its way to the handler.
C9_Witness ==
    /\ rpc = "consume"
    /\ rmsg.kind = "Attachment"
    /\ rmsg.left = 0
    /\ rmsg.open
    /\ ~attachment

(***************************************************************************)
(* Properties of the registry                                              *)
(***************************************************************************)
\* A step in which a ban_peer call returns.
BanReturns == ban.pc # "done" /\ ban'.pc = "done"

\* The address is not yielded by iter().connected(): not in the map, or
\* excluded, or not is_connected(), or the map lock is not available.
NotConnected(a) ==
    \/ a \notin DOMAIN peers
    \/ a \in excluded
    \/ peers[a].gone
    \/ MapLocked

\* C3, for a call whose store update succeeded: when ban_peer(a) returns, the
\* store reports a as banned and, if iter().connected() yielded a when the
\* call started, a is absent from the live map.
C3_BanPropagation ==
    [][(BanReturns /\ ban'.ret # "Store") =>
         /\ store'[ban'.addr] = "Banned"
         /\ ban'.conn => ban'.addr \notin DOMAIN peers']_vars

\* C10 as stated: ban_peer(a) on an address that is not connected persists
\* Banned for a, returns Err(PeerNotFound) and leaves the map unchanged.
C10_BanAbsentPeer ==
    [][(ban.pc = "idle" /\ ban'.pc # "idle" /\ NotConnected(ban'.addr)) =>
         /\ ban'.pc = "done"
         /\ ban'.ret = "PeerNotFound"
         /\ store'[ban'.addr] = "Banned"
         /\ peers' = peers]_vars

\* C10 as amended: ban_peer(a) on an address that is not connected leaves the
\* map unchanged and returns within the call's first part; when the store
\* update succeeds it has persisted Banned for a (and nothing else) and
\* returns Err(PeerNotFound); when the store update fails it returns that
\* error and leaves the store unchanged.
C10_BanAbsentPeerStoreOk ==
    [][(ban.pc = "idle" /\ ban'.pc # "idle" /\ NotConnected(ban'.addr)) =>
         /\ ban'.pc = "done"
         /\ peers' = peers
         /\ \/ /\ ban'.ret = "PeerNotFound"
               /\ store' = [store EXCEPT ![ban'.addr] = "Banned"]
            \/ /\ ban'.ret = "Store"
               /\ store' = store]_vars

\* ban_peer has returned PeerNotFound for an address that is not in the map,
\* the store reports it banned, and another peer is registered.
C10_Witness ==
    /\ ban.pc = "done"
    /\ ban.ret = "PeerNotFound"
    /\ ~ban.inMap
    /\ store[ban.addr] = "Banned"
    /\ ban.addr \notin DOMAIN peers
    /\ DOMAIN peers # {}

AddConnectedScope ==
    /\ [](add.lock => add.pc = "locked")
    /\ [][AddConnectedInsert =>
            /\ add.addr \in DOMAIN peers'
            /\ store' = store]_vars
    /\ [][\A a \in Addrs :
            (AddConnectedLock(a) /\ MapLocked) =>
               /\ add'.pc = "done"
               /\ add'.ret = "Timeout"
               /\ peers' = peers
               /\ store' = store]_vars
    /\ [][\A a \in Addrs :
            (AddConnectedLock(a) /\ ~MapLocked) => add'.pc = "locked"]_vars

\* C12 as stated: add_connected inserts under the write lock, which it holds
\* for the insertion only, and after releasing it persists a Healthy record
\* and returns Ok; without the lock it returns Timeout and changes neither
\* map nor store.
C12_AddConnectedPersists ==
    /\ AddConnectedScope
    /\ [][\A ok \in BOOLEAN :
            AddConnectedSave(ok) =>
               /\ ~add.lock
               /\ peers' = peers
               /\ add'.ret = "Ok"
               /\ store'[add.addr] = "Healthy"]_vars

\* C12 as amended: as C12, but the Healthy record is persisted only when
\* save_peer succeeds; when it fails the call still returns Ok, the peer is
\* in the map and the store is unchanged.
C12_AddConnectedSaves ==
    /\ AddConnectedScope
    /\ [][\A ok \in BOOLEAN :
            AddConnectedSave(ok) =>
               /\ ~add.lock
               /\ peers' = peers
               /\ add'.ret = "Ok"
               /\ store' = IF ok THEN [store EXCEPT ![add.addr] = "Healthy"]
                           ELSE store]_vars

\* An add_connected call has timed out on the lock that Peers::stop holds,
\* after an earlier call had registered a peer and persisted its record.
C12_Witness ==
    /\ add.pc = "done"
    /\ add.ret = "Timeout"
    /\ mapLock
    /\ add.addr \notin DOMAIN peers
    /\ store[add.addr] = "None"
    /\ \E b \in DOMAIN peers : store[b] = "Healthy"

\* A ban_peer call meets the held lock in its lookup (iter) or in its removal.
BanLookupLocked ==
    \E a \in Addrs : BanPeerBegin(a, TRUE) /\ MapLocked

BanRemoveLocked == BanPeerRemove /\ MapLocked

\* C19 as stated: while the map lock cannot be acquired, add_connected,
\* is_known and ban_peer fail with Timeout, and iter yields nothing.
C19_LockTimeout ==
    /\ [](MapLocked => iter = {})
    /\ [][\A a \in Addrs :
            (AddConnectedLock(a) /\ MapLocked) => add'.ret = "Timeout"]_vars
    /\ [][\A a \in Addrs :
            (IsKnown(a) /\ MapLocked) => known'.ret = "Timeout"]_vars
    /\ [][(BanLookupLocked \/ BanRemoveLocked) => ban'.ret = "Timeout"]_vars

\* C19 as amended: while the map lock cannot be acquired, add_connected fails
\* with Timeout and changes nothing, is_known fails with Internal, ban_peer
\* fails with PeerNotFound when its lookup meets the lock and with
\* PeerException when its removal does (the lookup case after persisting the
\* Banned state, and both cases without changing the map), and iter yields
\* nothing.
C19_LockErrors ==
    /\ [](MapLocked => iter = {})
    /\ [][\A a \in Addrs :
            (AddConnectedLock(a) /\ MapLocked) =>
               /\ add'.pc = "done"
               /\ add'.ret = "Timeout"
               /\ peers' = peers
               /\ store' = store]_vars
    /\ [][\A a \in Addrs :
            (IsKnown(a) /\ MapLocked) =>
               known' = [addr |-> a, ret |-> "Internal"]]_vars
    /\ [][BanLookupLocked =>
            /\ ban'.pc = "done"
            /\ ban'.ret = "PeerNotFound"
            /\ store'[ban'.addr] = "Banned"
            /\ peers' = peers]_vars
    /\ [][BanRemoveLocked =>
            /\ ban'.pc = "done"
            /\ ban'.ret = "PeerException"
            /\ store' = store
            /\ peers' = peers]_vars

\* While Peers::stop holds the lock, all three calls have failed on it.
C19_Witness ==
    /\ mapLock
    /\ add.pc = "done"
    /\ add.ret = "Timeout"
    /\ known.ret = "Internal"
    /\ ban.pc = "done"
    /\ ban.ret = "PeerException"
    /\ iter = {}
    /\ ban.addr \in DOMAIN peers

(***************************************************************************)
(* Properties of broadcast and check_all                                   *)
(***************************************************************************)
Broadcasts == {i \in FanIds : FanOp(i) = "broadcast"}

\* The steps of one call that touch the map: only the Err arm does, and it
\* takes out the failed peer's address and nothing else.
FanRemovesOnlyFailed ==
    /\ [][\A i \in FanIds :
            FanRemove(i) =>
               \A b \in DOMAIN peers \ {fan[i].cur} :
                  b \in DOMAIN peers' /\ peers'[b] = peers[b]]_vars
    /\ [][\A i \in FanIds, a \in Addrs, c \in BOOLEAN, r \in SendOutcomes :
            FanVisit(i, a, c, r) => peers' = peers]_vars

\* C13 as stated: broadcast counts the connected peers for which the send
\* succeeded; every peer whose send returned Err is stopped and removed from
\* the map, and the loop goes on; the call removes no other peer.
C13_BroadcastDropOnError ==
    /\ [](\A i \in Broadcasts : fan[i].count = fan[i].oks)
    /\ [][\A i \in FanIds :
            FanRemove(i) =>
               fan[i].cur \notin DOMAIN peers' /\ fan'[i].pc = "loop"]_vars
    /\ FanRemovesOnlyFailed

\* C13 as amended: broadcast counts the connected peers for which the send
\* returned Ok(true), not those for which it returned Ok(false); a peer whose
\* send returned Err is stopped and removed from the map and the loop goes
\* on, unless the write lock is not acquired in time: then the call ends at
\* once, the map is unchanged and the rest of the snapshot is not sent to;
\* the call removes no other peer.
C13_BroadcastCountsSent ==
    /\ [](\A i \in Broadcasts :
            fan[i].count = Len(fan[i].got) /\ fan[i].count <= fan[i].oks)
    /\ [][\A i \in Broadcasts, a \in Addrs, c \in BOOLEAN, r \in SendOutcomes :
            FanVisit(i, a, c, r) =>
               fan'[i].count = IF c /\ r = "OkTrue" THEN fan[i].count + 1
                               ELSE fan[i].count]_vars
    /\ [][\A i \in FanIds :
            (FanRemove(i) /\ ~MapLocked) =>
               fan[i].cur \notin DOMAIN peers' /\ fan'[i].pc = "loop"]_vars
    /\ [][\A i \in FanIds :
            (FanRemove(i) /\ MapLocked) =>
               /\ peers' = peers
               /\ fan'[i].pc = "done"
               /\ fan'[i].broke
               /\ fan'[i].todo = fan[i].todo]_vars
    /\ [](\A i \in FanIds :
            fan[i].pc = "done" => (fan[i].broke \/ fan[i].todo = {}))
    /\ FanRemovesOnlyFailed

\* A broadcast over two connected peers has sent to one, which is still in
\* the map, and has removed the other.
C13_Witness ==
    \E i \in Broadcasts :
       /\ fan[i].pc = "done"
       /\ ~fan[i].broke
       /\ Cardinality(fan[i].conn0) = 2
       /\ fan[i].count = 1
       /\ fan[i].cur \in fan[i].conn0 \ Range(fan[i].got)
       /\ DOMAIN peers = Range(fan[i].got)
       /\ ban = NoBan
       /\ ~mapLock

C15_ExcludedNeverServed ==
    /\ [](\A a \in excluded : a \notin iter /\ get_connected_peer(a) = {})
    /\ [][\A i \in FanIds, a \in Addrs :
            FanVisit(i, a, TRUE, "OkTrue") => a \notin excluded]_vars

(***************************************************************************)
(* Properties of clean_peers                                               *)
(***************************************************************************)
\* A step in which the first or the second clean_peers call is made.
CleanReturns == prune'.calls > prune.calls

\* C16: a registered peer whose workers have exited (it reports
\* !is_connected()) is absent from the map after the next clean_peers call.
C16_StoppedPeerPruned ==
    [][CleanReturns =>
         \A a \in DOMAIN peers :
            ~is_connected(peers[a]) => a \notin DOMAIN peers']_vars

\* After a call, neither of the gradual rules has work left: no lagging peer
\* of peer_infos has failed twice in a row, and the connected outbound peers
\* do not exceed max_outbound_count unless all of them are preferred.
Settled ==
    /\ \A a \in PeerInfos(prune.args, prune.obs) :
          prune.obs[a].lag => prune.failures[a] < MaxFailures - 1
    /\ \/ Cardinality(outbound_peers(prune.obs)) <= prune.args.maxOut
       \/ PeerInfos(prune.args, prune.obs) = {}

\* C17 as stated: a clean_peers call that follows another one, with the same
\* arguments and nothing changed in between, removes no peer.
C17_CleanIdempotent ==
    [][\A ok \in BOOLEAN :
         (CleanAgain(ok) /\ prune.calls >= 1) => peers' = peers]_vars

\* C17 as amended: such a call removes no peer provided the map lock is free
\* and the gradual rules have no work left: no lagging outbound peer is in
\* its third cycle in a row, and no more than max_outbound_count outbound
\* peers are connected, or only preferred ones.
C17_CleanIdempotentSettled ==
    [][\A ok \in BOOLEAN :
         (CleanAgain(ok) /\ prune.calls >= 1 /\ ~MapLocked /\ Settled) =>
            peers' = peers]_vars

\* Two calls in succession have left an outbound and an inbound peer within
\* the limits, the outbound one lagging but preferred.
C17_Witness ==
    /\ prune.calls = 2
    /\ Settled
    /\ DOMAIN peers = Addrs
    /\ prune.args.maxIn = 1
    /\ prune.args.maxOut = 1
    /\ prune.args.boost
    /\ prune.obs["a1"].out
    /\ prune.obs["a1"].lag
    /\ ~prune.obs["a2"].out
    /\ \A a \in Addrs : is_connected(peers[a]) /\ ~peers[a].banned

\* ----------------------------------------------------------------------
\* Properties of the registry's locks
\* ----------------------------------------------------------------------

\* C18: no thread is inside a call of the peer store while it holds a
\* guard of the registry map; the map lock and the store lock are never
\* taken in both orders; and no set of threads running add_connected,
\* ban_peer, unban_peer, broadcast, check_all, clean_peers, stop and the
\* iterator is deadlocked, each waiting only for others of the set.
C18_NoDeadlock ==
    /\ \A t \in Threads : ~({"peers", "store"} \subseteq HeldLocks(t))
    /\ ~(<<"peers", "store">> \in lk.order /\ <<"store", "peers">> \in lk.order)
    /\ \A S \in SUBSET Threads : ~Deadlocked(S)

\* Peers::stop holds the map while it joins the peer's thread, that thread
\* is in ban_peer about to ask for the map, and a third thread is inside
\* a store call.
C18_Witness ==
    \E t, u \in Threads :
        /\ Running(t) /\ Instr(t).op = "join" /\ Waiting(t)
        /\ lk.op[PeerThread] = "ban_peer" /\ lk.pc[PeerThread] = 7
        /\ "store" \in HeldLocks(u)

\* ----------------------------------------------------------------------
\* Properties of boost mode
\* ----------------------------------------------------------------------

\* The hint in force is not UNKNOWN and took effect less than 120 s ago.
InBoostWindow ==
    boost.hint # "UNKNOWN" /\ boost.now - boost.since < BoostSeconds

\* C20: is_boosting_mode returns true throughout the 120 s that follow the
\* moment a published hint other than UNKNOWN took effect, false once 120 s
\* have elapsed since that moment, and false whenever the hint is UNKNOWN.
C20_BoostWindow ==
    boost.asked =>
        /\ InBoostWindow => boost.ret
        /\ (boost.hint # "UNKNOWN" /\ boost.now - boost.since >= BoostSeconds)
             => ~boost.ret
        /\ boost.hint = "UNKNOWN" => ~boost.ret

\* is_boosting_mode has just returned false for a hint other than UNKNOWN
\* that took effect exactly 120 s ago.
C20_Witness ==
    /\ boost.asked /\ ~boost.ret
    /\ boost.hint # "UNKNOWN"
    /\ boost.now - boost.since = BoostSeconds

\* ----------------------------------------------------------------------
\* Properties of Server::connect
\* ----------------------------------------------------------------------

\* The call has returned an error without dialling, creating a peer or
\* writing to the map.
ConnectRefused ==
    /\ srv.connect.pc = "done"
    /\ srv.connect.ret \in {"ConnectionClose", "PeerWithSelf"}
    /\ ~srv.connect.dialled /\ ~srv.connect.spawned /\ ~srv.connect.replaced

\* C21: Server::connect refuses, without dialling and without adding or
\* replacing a registry entry, when the node is stopping, the address is
\* denylisted, the registry holds more than max_in + max_out + 10
\* connections, or the address is the node's own; for the node's own
\* address alone the error is PeerWithSelf.
C21_ConnectRefuses ==
    srv.connect.pc # "idle" =>
        /\ srv.connect.why # {} => ConnectRefused
        /\ srv.connect.why = {"self"} => srv.connect.ret = "PeerWithSelf"

\* The reasons for a refusal as Server::connect can see them: the size of
\* the map is read as 0 while the map is locked, and the node's own
\* addresses are looked for in production mode only.
ConnectSeen ==
    {w \in srv.connect.why :
        /\ w = "full" => ~srv.connect.locked
        /\ w = "self" => srv.connect.prod}

\* C21, amended: the same, with the registry's size as
\* get_number_connected_peers reports it and the node's own address
\* refused in production mode.
C21_ConnectRefusesSeen ==
    srv.connect.pc # "idle" =>
        /\ ConnectSeen # {} => ConnectRefused
        /\ ConnectSeen = {"self"} => srv.connect.ret = "PeerWithSelf"

\* A call for the node's own address in production mode, with no other
\* reason for a refusal, has returned.
C21_Witness ==
    /\ srv.connect.pc = "done"
    /\ srv.connect.why = {"self"}
    /\ srv.connect.prod
    /\ srv.connect.ret = "PeerWithSelf"
    /\ srv.connect.had

\* C22: a Server::connect to an address whose peer is registered and
\* connected, when it is not refused, returns that peer's handle: it
\* dials no connection, creates no second peer with its workers, and does
\* not replace the entry of the map.
C22_ConnectExisting ==
    (srv.connect.pc # "idle" /\ srv.connect.conn /\ ~srv.connect.refused) =>
        /\ srv.connect.pc = "done"
        /\ srv.connect.ret = "Peer"
        /\ ~srv.connect.dialled /\ ~srv.connect.spawned
        /\ ~srv.connect.replaced

\* ----------------------------------------------------------------------
\* Properties of the listener
\* ----------------------------------------------------------------------

\* C23: an accepted stream is shut down, without handshake and without
\* registration, when the connected inbound peers are at their limit, or
\* its IPv4-converted peer address is banned in the store, or its address
\* is present in the map, or the map cannot be read; otherwise it is not shut down, and if
\* the handshake is run, its success registers the peer (the map's lock
\* permitting) and its failure has the address saved as Banned.
C23_InboundAdmission ==
    LET c == srv.accept
        a == to_ipv4(c.raw)
    IN /\ (c.pc # "idle" /\ c.und) =>
             c.pc = "done" /\ c.shut /\ ~c.ran /\ ~c.registered
       /\ (c.pc = "done" /\ ~c.und) =>
             /\ ~c.shut
             /\ (c.ran /\ c.hs = "Ok" /\ c.ret # "Timeout") => c.registered
             /\ (c.ran /\ c.hs = "Error") =>
                    /\ c.ban # "None"
                    /\ c.ban = "Saved" => store[a] = "Banned"

\* C24: once Server::stop has set the stop flag, the loop of listen is
\* eventually left with every peer stopped, joined and removed from the
\* map; a pause (Peers::stop alone) empties the map and leaves the loop
\* running.
C24_StopAndPause ==
    /\ srv.stopped ~> (/\ srv.accept.pc = "exited"
                       /\ srv.halt = "done"
                       /\ DOMAIN peers = {})
    /\ [](~srv.stopped => srv.accept.pc # "exited")
    /\ [][(mapLock /\ ~mapLock') => DOMAIN peers' = {}]_vars

\* C25 (as stated): when the downstream adapter returned Ok(false) to
\* block_received, compact_block_received or header_received, the wrapper
\* calls ban_peer for the sender with BadBlock, BadCompactBlock or
\* BadBlockHeader and returns Ok(false); when it returned Err, the wrapper
\* returns that error and ban_peer is not called.
C25_ReceivedBan ==
    (recv.pc = "done" /\ recv.kind \in BanningKinds) =>
       /\ recv.adapter = "Ok(false)" =>
             /\ ban.pc = "done" /\ ban.addr = recv.addr
             /\ recv.reason = ReasonFor(recv.kind)
             /\ recv.ret = "Ok(false)"
       /\ recv.adapter \in AdapterErrors =>
             recv.ret = recv.adapter /\ ban.pc = "idle"

\* C25 (amended): as stated, but Ok(false) is returned only when ban_peer
\* succeeded; a failure of ban_peer is returned as the error
\* "ban peer error".
C25_ReceivedBanResult ==
    (recv.pc = "done" /\ recv.kind \in BanningKinds) =>
       /\ recv.adapter = "Ok(false)" =>
             /\ ban.pc = "done" /\ ban.addr = recv.addr
             /\ recv.reason = ReasonFor(recv.kind)
             /\ ban.ret = "Ok" => recv.ret = "Ok(false)"
             /\ ban.ret # "Ok" => recv.ret = "Err(ban peer error)"
       /\ recv.adapter \in AdapterErrors =>
             recv.ret = recv.adapter /\ ban.pc = "idle"

\* A bad header's sender was banned and removed, and a ban that failed
\* was reported.
C25_Witness ==
    /\ recv.pc = "done" /\ recv.kind = "header"
    /\ recv.adapter = "Ok(false)"
    /\ ban.ret = "Ok" /\ recv.ret = "Ok(false)"
    /\ is_banned(recv.addr) /\ recv.addr \notin DOMAIN peers

\* C26: wait_for_min_peers goes on waiting only while stop is not
\* requested and fewer than 3 connected outbound peers have at least the
\* local head's difficulty; it returns once it has waited 30 s when the
\* status was AwaitingPeers, 3 s otherwise, and never waits longer than
\* that.
C26_WaitForMinPeers ==
    LET w == sync.wait
    IN /\ w.pc # "idle" =>
             w.wait_secs = IF w.status = "AwaitingPeers"
                           THEN WaitSecsAwaiting ELSE WaitSecsOther
       /\ w.pc = "sleep" => ~w.saw /\ w.wp < MIN_PEERS
       /\ (w.pc = "done" /\ w.ret = "Ok") =>
             w.saw \/ w.wp >= MIN_PEERS \/ w.n >= w.wait_secs
       /\ w.n <= w.wait_secs

\* What C27 says of a pulse but for the requests made after a stop
\* request: the status and the hint for each response, compaction and the
\* 20 turns after SyncDone, and the length of the sleep before a pulse.
PulseEffects ==
    LET y == sync.pulse
    IN /\ y.resp = "WaitingForPeers" =>
             /\ y.after = "AwaitingPeers"
             /\ y.hint = y.caps /\ boost.capabilities = y.caps
       /\ y.resp = "Syncing" =>
             /\ y.after = y.prev
             /\ y.hint = y.caps /\ boost.capabilities = y.caps
       /\ y.resp = "SyncDone" =>
             /\ y.after = "NoSync"
             /\ y.hint = "UNKNOWN" /\ boost.capabilities = "UNKNOWN"
             /\ y.compacted
             /\ y.fired + y.left <= ServiceTurns
             /\ (sync.pc \in {"top", "match"} /\ ~srv.stopped) =>
                    y.fired = ServiceTurns
       /\ y.resp = "HasMoreHeadersToApply" =>
             y.after = y.prev /\ y.hint = "None"
       /\ sync.pc \in {"service", "request"} => y.resp = "SyncDone"
       /\ sync.pc = "match" =>
             y.slept = IF y.resp = "HasMoreHeadersToApply"
                       THEN ShortSleepTime ELSE SleepTime

\* C27 (as stated): the effects of a pulse, and no header/block request
\* of the 20 s after SyncDone is made once stop is requested.
C27_SyncPulse == PulseEffects /\ sync.pulse.late = 0

\* C27 (amended): the effects of a pulse; after SyncDone a turn that finds
\* stop requested makes no request, so at most the one request whose
\* second of sleep had begun follows the stop request.
C27_SyncPulseStop == PulseEffects /\ sync.pulse.late <= 1

\* A SyncDone pulse ran its 20 turns and the next pulse slept 1000 ms.
C27_Witness ==
    /\ sync.pc = "match"
    /\ sync.pulse.resp = "SyncDone"
    /\ sync.pulse.fired = ServiceTurns
    /\ sync.pulse.slept = SleepTime

\* C28: a clean_peers call lists every registered peer that is flagged
\* banned, is not connected, is abusive or is stuck below the local
\* difficulty, and with the map's lock acquired the peer is gone from the
\* map; an abusive peer (not flagged banned, connected) is saved as Banned
\* and a stuck one as Defunct, if the store takes the update.
C28_HealthPruning ==
    [][\A ok \in BOOLEAN :
         CleanAgain(ok) =>
            \A a \in DOMAIN peers :
               LET p == peers[a]
                   bad == prune.obs[a].bad
               IN /\ (p.banned \/ ~is_connected(p) \/ bad # "no") =>
                        (~MapLocked => a \notin DOMAIN peers')
                  /\ (ok /\ ~p.banned /\ is_connected(p)
                         /\ a \notin excluded) =>
                        /\ bad = "abusive" => store'[a] = "Banned"
                        /\ bad = "stuck" => store'[a] = "Defunct"]_vars

\* C29: in a clean_peers call, the counter of each connected outbound peer
\* that is not preferred, is at least 2 blocks below the local height and
\* has a lower total difficulty grows by one, and the peer is removed when
\* the counter reaches 3; the counter of every other such peer is zero
\* after the call.
C29_Underperformance ==
    [][\A ok \in BOOLEAN :
         CleanAgain(ok) =>
            \A a \in PeerInfos(prune.args, prune.obs) :
               IF /\ prune.info[a].height + LagBlocks <= prune.my.height
                  /\ prune.info[a].diff < prune.my.diff
               THEN /\ prune'.failures[a] = prune.failures[a] + 1
                    /\ prune'.failures[a] >= MaxFailures =>
                          a \notin DOMAIN peers'
               ELSE prune'.failures[a] = 0]_vars

\* The excess outbound step of a call took the peers shed among the peers
\* of from: at most min(2, outbound - max_out) of them, none with a higher
\* score than a peer of from it left, the score being the total
\* difficulty, halved for a peer whose base fee is below ours.
ShedFrom(shed, from) ==
    /\ Cardinality(shed) <=
          Min(MaxShed, SatSub(Cardinality(outbound_peers(prune.obs)),
                              prune.args.maxOut))
    /\ shed \subseteq from
    /\ \A t \in shed, u \in from \ shed :
          LET key(a) == IF prune.info[a].lowfee
                        THEN prune.info[a].diff \div 2
                        ELSE prune.info[a].diff
          IN key(t) <= key(u)

InboundInMap ==
    {a \in DOMAIN peers : ~prune.obs[a].out /\ is_connected(peers[a])}

InboundListed == inbound_peers(prune.obs)

\* C31 (as stated): after a clean_peers call that acquires the map's lock
\* at most max_in connected inbound peers are in the map, and the call took
\* a preferred inbound peer as excess only after every other one.
C31_ExcessInbound ==
    [][\A ok \in BOOLEAN :
         CleanAgain(ok) /\ ~MapLocked =>
            /\ Cardinality(InboundInMap') <= prune.args.maxIn
            /\ prune'.over \cap prune.args.pref # {} =>
                  InboundListed \ prune.args.pref \subseteq prune'.over]_vars

\* C31 (amended): after such a call the connected inbound peers the
\* registry lists are at most max_in or the preferred ones among those the
\* call found, whichever is more; the call took as excess the inbound
\* peers above max_in, as far as there were peers that are not preferred,
\* and no preferred one.
C31_ExcessInboundKept ==
    [][\A ok \in BOOLEAN :
         CleanAgain(ok) /\ ~MapLocked =>
            LET pref == InboundListed \cap prune.args.pref
                rest == InboundListed \ prune.args.pref
                max_in == prune.args.maxIn
            IN /\ Cardinality(InboundListed') <=
                     (IF Cardinality(pref) > max_in
                      THEN Cardinality(pref) ELSE max_in)
               /\ prune'.over \subseteq rest
               /\ Cardinality(prune'.over) =
                     Min(SatSub(Cardinality(InboundListed), max_in),
                         Cardinality(rest))]_vars

\* A call took an inbound peer as excess and left a preferred one, with
\* which the map holds more than max_in inbound peers.
C31_Witness ==
    /\ prune.calls >= 1
    /\ prune.over # {}
    /\ \E a \in prune.args.pref : a \in InboundInMap
    /\ Cardinality(InboundInMap) > prune.args.maxIn

\* C32: a clean_peers call with a boost capability takes in its boost step
\* only connected outbound peers that lack the capability and are not
\* preferred, and no more of them than the peers lacking the capability
\* exceed max_out / 2.
C32_BoostTrim ==
    [][\A ok \in BOOLEAN :
         CleanAgain(ok) /\ prune.args.boost =>
            LET lacking == {a \in outbound_peers(prune.obs) :
                               ~prune.obs[a].cap}
            IN /\ prune'.trim \subseteq lacking \ prune.args.pref
               /\ Cardinality(prune'.trim) <=
                     SatSub(Cardinality(lacking),
                            prune.args.maxOut \div 2)]_vars

\* C33: whatever the arguments and the peers, the boost step, the failure
\* loop, the excess outbound step and the excess inbound step of a
\* clean_peers call list no address of config.peers_preferred.
C33_PreferredExempt ==
    (prune.trim \cup prune.slow \cup prune.shed \cup prune.over)
       \cap prune.args.pref = {}

\* A call with a boost capability and max_outbound_count = 0 found two
\* outbound peers lacking the capability, the preferred one lagging: the
\* other one was taken, the preferred one is in the map and has no failure
\* counted.
C33_Witness ==
    /\ prune.calls = 1
    /\ prune.args.boost /\ prune.args.maxOut = 0
    /\ prune.args.pref = {"a1"}
    /\ prune.obs["a1"].out /\ prune.obs["a1"].lag /\ ~prune.obs["a1"].cap
    /\ prune.obs["a1"].bad = "no"
    /\ prune.failures["a1"] = 0
    /\ prune.trim = {"a2"} /\ prune.shed = {"a2"}
    /\ DOMAIN peers = {"a1"}

\* The errors try_break! absorbs: the transient i/o errors and the errors
\* of the store, the chain and the node itself.
TransientErrors == {"TimedOut", "WouldBlock"}

SkippedErrors == {"Store", "Chain", "Internal", "NoDandelionRelay"}

\* The reader loop goes on to its next iteration with the stream open.
ReaderContinues ==
    /\ rpc' = "read"
    /\ UNCHANGED <<rexit, streamShut, attachment, stopped>>

\* The reader loop is left and the stream shut down.
ReaderLeaves == rpc' = "exited" /\ rexit' = "error" /\ streamShut'

\* What the reader loop does with an error of the handler: absorbed
\* errors are skipped, any other one ends the loop.
ConsumeErrors ==
    \A c \in ConsumeResults :
       ReaderConsumeStep(c) /\ c.res # "Ok" =>
          IF c.res \in TransientErrors \cup SkippedErrors
          THEN ReaderContinues /\ UNCHANGED <<queue, accepted>>
          ELSE ReaderLeaves

\* C34 (as stated): a read that times out or would block is an iteration
\* without effect; a Store, Chain, Internal or NoDandelionRelay error of the
\* codec or the handler is skipped and the loop goes on; any other error
\* ends the loop and shuts the stream down.
C34_ReadErrorClasses ==
    [][/\ \A next \in ReadResults :
             ReaderReadOf(next) /\ next.res # "Ok" =>
                IF next.res \in TransientErrors
                THEN UNCHANGED <<connVars, rate, gossip>>
                ELSE IF next.res \in SkippedErrors
                THEN ReaderContinues
                ELSE ReaderLeaves
       /\ ConsumeErrors]_vars

\* C34 (amended): as stated, but a read that times out or would block
\* leaves the connection as it is and, unless the node is syncing, is
\* counted by the tracker as a message.
C34_ReadErrorsCounted ==
    [][/\ \A next \in ReadResults :
             ReaderReadOf(next) /\ next.res # "Ok" =>
                IF next.res \in TransientErrors
                THEN /\ UNCHANGED connVars
                     /\ rate'.ticks =
                           rate.ticks + (IF rate.syncing THEN 0 ELSE 1)
                ELSE IF next.res \in SkippedErrors
                THEN ReaderContinues
                ELSE ReaderLeaves
       /\ ConsumeErrors]_vars

\* A read timed out while the node was not syncing: the loop is at its
\* next read, and the tracker has counted a message.
C34_Witness ==
    /\ rate.reads = 1 /\ rate.next.res = "TimedOut"
    /\ rate.ticks = 1
    /\ rpc = "read" /\ rexit = "none" /\ ~streamShut

\* The tracker counted the read of a step that obtained the message next:
\* its bytes, and a message tick unless next is an attachment chunk or a
\* header batch with remaining > 0.
ReadCounted(next) ==
    /\ rate'.reads = rate.reads + 1
    /\ rate'.bytes = rate.bytes + rate'.n
    /\ rate'.ticks =
          rate.ticks +
             (IF \/ next.kind = "Attachment"
                 \/ next.kind = "Headers" /\ next.left > 0
              THEN 0 ELSE 1)

\* C35 (as stated): every message the reader obtains from the codec is
\* counted by the received-bytes tracker with its bytes, and with one
\* message tick unless it is an attachment chunk or a header batch with
\* remaining > 0.
C35_RateAccounting ==
    [][\A next \in ReadResults :
          ReaderReadOf(next) /\ next.res = "Ok" => ReadCounted(next)]_vars

\* C35 (amended): so it is while the node is not syncing; while it is
\* syncing the tracker is left as it is.
C35_RateAccountingIdle ==
    [][\A next \in ReadResults :
          ReaderReadOf(next) /\ next.res = "Ok" =>
             IF rate.syncing
             THEN rate' = rate
             ELSE ReadCounted(next)]_vars

\* Two reads were counted, the second one the header batch with
\* remaining = 0, and the tracker holds one message tick: the first read
\* was counted quietly.
C35_Witness ==
    /\ rate.reads = 2
    /\ rate.next.res = "Ok" /\ rate.next.kind = "Headers"
    /\ rate.next.left = 0
    /\ rate.ticks = 1
    /\ rate.bytes = 2 * MaxBytes

\* C36: the record of an address that is Banned stays Banned in every step
\* of connect, add_connected, add_banned, ban_peer, clean_peers and
\* peer_addrs_received; only an unban_peer call that returns Ok changes
\* it, to Healthy.
C36_BanPersists ==
    [][\A a \in Addrs :
          store[a] = "Banned" /\ store'[a] # "Banned" =>
             /\ store'[a] = "Healthy"
             /\ unban'.addr = a /\ unban'.ret = "Ok"
             /\ \E readOk, updateOk \in BOOLEAN :
                   UnbanPeer(a, readOk, updateOk)]_vars

\* C37: the save of a peer_addrs_received call changes the record of no
\* address that has one, and gives a Healthy record to the others it
\* changes.
C37_GossipAdditive ==
    [][\A ok \in BOOLEAN :
          PeerAddrsSave(ok) =>
             \A a \in Addrs :
                /\ store[a] # "None" => store'[a] = store[a]
                /\ store'[a] # store[a] => store'[a] = "Healthy"]_vars

\* C38: once Server::stop has returned the map is empty, whatever
\* Server::connect calls and admissions of the listener were under way.
C38_StopFinal == srv.halt = "done" => DOMAIN peers = {}

\* C39: the map never holds more than peer_max_inbound_count +
\* peer_max_outbound_count + 10 + 1 peers, whatever Server::connect calls
\* and admissions of the listener run side by side.
C39_ConnectionCap ==
    RegistrySize <= MaxCount + MaxCount + ExtraConnections + 1

\* C40: the listener has saved the address of an admission as Banned for
\* BadHandshake only if the handshake was run and failed: not when
\* handle_new_peer gave up for the stop flag or the size of the registry,
\* when total_difficulty failed, or when add_connected timed out.
C40_BanOnHandshakeOnly ==
    srv.accept.ban = "Saved" =>
       srv.accept.ran /\ srv.accept.hs = "Error"

====
